---- MODULE Spec2Model ----
(***************************************************************************)
(* ds-cache: an in-memory, Redis-compatible key-value store.               *)
(*                                                                         *)
(* The keyspace store (src/src/storage) is modelled as pure operators      *)
(* over a map from key to Entry, one operator per CacheStore method, each  *)
(* returning the new map and the method's return value.  Instant::now() is *)
(* a parameter of every operator that reads the clock.  The actions apply  *)
(* the operators to the state and record the call in `last`.               *)
(***************************************************************************)
EXTENDS Integers, Sequences, FiniteSets, TLC

VARIABLES
    data,   \* CacheStore.data : HashMap<String, Entry>
    now,    \* the monotonic clock read by Instant::now()
    last,   \* the last store call: method, key, arguments, result, entry before
    conns,  \* per-connection task state of Server::run
    lock    \* the tokio RwLock around the store: the set of tasks holding it

vars == <<data, now, last, conns, lock>>

---------------------------------------------------------------------------
(* Bounds of the model *)

MaxTime == 2
MaxTtl == 1
MaxListLen == 2
\* i64 and usize are modelled I64Bits wide, two's complement
I64Bits == 8

MaxArgs == 2
\* the longest list of SpecList
MaxRangeLen == 4
MaxScore == 2

Keys == {"k1"}
Elems == {"a", "b"}
TTLs == 0 .. MaxTtl
Scores == 1 .. MaxScore
\* argument vectors of 1 .. MaxArgs items drawn from S
Args(S) == UNION {[1 .. n -> S] : n \in 1 .. MaxArgs}

---------------------------------------------------------------------------
(* Option<T>: None is the empty sequence, Some(x) the one-element sequence *)

None == << >>
Some(x) == << x >>
IsSome(o) == o # None
Unwrap(o) == o[1]

Min(a, b) == IF a < b THEN a ELSE b
Max(a, b) == IF a > b THEN a ELSE b

---------------------------------------------------------------------------
(* Value and its variants *)

StringValue(s) == [type |-> "string", data |-> s]
ListValue(es) == [type |-> "list", elements |-> es]
SetValue(ms) == [type |-> "set", members |-> ms]
HashValue(fs) == [type |-> "hash", fields |-> fs]
\* members: BTreeMap<OrderedFloat, Vec<u8>>, member_scores: HashMap<Vec<u8>, OrderedFloat>
SortedSetValue(ms, sc) == [type |-> "zset", members |-> ms, member_scores |-> sc]

EmptyMap == [x \in {} |-> 0]
ListValue_new == ListValue(<< >>)
SetValue_new == SetValue({})
HashValue_new == HashValue(EmptyMap)
SortedSetValue_new == SortedSetValue(EmptyMap, EmptyMap)

\* HashMap / BTreeMap insert and remove on a TLA+ function
MapInsert(m, k, v) == [x \in (DOMAIN m) \cup {k} |-> IF x = k THEN v ELSE m[x]]
\* variant: the removal empties the map
MapRemove_Clears(m, k) == EmptyMap

MapRemove(m, k) == [x \in (DOMAIN m) \ {k} |-> m[x]]

---------------------------------------------------------------------------
(* Entry *)

\* created_at is written by the constructors and read nowhere; it is left out
Entry_new(value) ==
    [value |-> value, expires_at |-> None, last_accessed |-> None]

\* variant: the deadline is not recorded
Entry_with_expiration_NoDeadline(value, dur, t) ==
    [value |-> value, expires_at |-> None, last_accessed |-> None]

Entry_with_expiration(value, dur, t) ==
    [value |-> value, expires_at |-> Some(t + dur), last_accessed |-> None]

\* variant: no entry ever counts as expired
is_expired_Never(entry, t) == FALSE

is_expired(entry, t) ==
    IF IsSome(entry.expires_at) THEN t > Unwrap(entry.expires_at) ELSE FALSE

\* variant: an access also pushes the deadline to the time of the access
update_access_time_Slides(entry, t) ==
    [entry EXCEPT !.last_accessed = Some(t),
                  !.expires_at = IF IsSome(entry.expires_at) THEN Some(t + 1)
                                 ELSE None]
update_access_time(entry, t) == [entry EXCEPT !.last_accessed = Some(t)]

\* set_expiration keeping a deadline the entry already has
set_expiration_KeepsEarlier(entry, dur, t) ==
    IF IsSome(entry.expires_at) THEN entry
    ELSE [entry EXCEPT !.expires_at = Some(t + dur)]
set_expiration(entry, dur, t) == [entry EXCEPT !.expires_at = Some(t + dur)]

remove_expiration(entry) == [entry EXCEPT !.expires_at = None]

\* Entry::ttl reads the clock itself
Entry_ttl(entry, t) ==
    IF IsSome(entry.expires_at)
    THEN IF Unwrap(entry.expires_at) > t
         THEN Some(Unwrap(entry.expires_at) - t)
         ELSE Some(0)
    ELSE None

---------------------------------------------------------------------------
(* CacheStore: every method is Op(d, t, key, args) -> [data, ret] *)

\* panic: the call unwound instead of returning
Res(d, r) == [data |-> d, ret |-> r, panic |-> FALSE]
Panicked(d) == [data |-> d, ret |-> None, panic |-> TRUE]

\* the three arms every method matches on: Some(entry) if !entry.is_expired(),
\* Some(_), None
Live(d, t, key) == key \in DOMAIN d /\ ~is_expired(d[key], t)
Stale(d, t, key) == key \in DOMAIN d /\ is_expired(d[key], t)

\* variant: writing the value also clears the deadline
WithValue_DropsDeadline(d, key, v) ==
    [d EXCEPT ![key] = [value |-> v, expires_at |-> None,
                        last_accessed |-> d[key].last_accessed]]
WithValue(d, key, v) == [d EXCEPT ![key].value = v]

\* a typed read: f(value) on a live entry of type ty, miss otherwise;
\* an expired entry is removed
TypedRead(d, t, key, ty, hit(_), miss) ==
    IF Live(d, t, key)
    THEN IF d[key].value.type = ty THEN Res(d, hit(d[key].value)) ELSE Res(d, miss)
    ELSE IF Stale(d, t, key) THEN Res(MapRemove(d, key), miss)
    ELSE Res(d, miss)

cleanup_expired(d, t) ==
    LET expired_keys == {k \in DOMAIN d : is_expired(d[k], t)}
    IN  Res([k \in (DOMAIN d) \ expired_keys |-> d[k]], Cardinality(expired_keys))

get(d, t, key) ==
    IF Live(d, t, key)
    THEN Res([d EXCEPT ![key] = update_access_time(d[key], t)], Some(d[key].value))
    ELSE IF Stale(d, t, key) THEN Res(MapRemove(d, key), None)
    ELSE Res(d, None)

\* set keeping the deadline of the entry it replaces
set_KeepsDeadline(d, t, key, value) ==
    Res(MapInsert(d, key,
            IF key \in DOMAIN d
            THEN [Entry_new(value) EXCEPT !.expires_at = d[key].expires_at]
            ELSE Entry_new(value)), TRUE)
set(d, t, key, value) == Res(MapInsert(d, key, Entry_new(value)), TRUE)

set_with_expiration(d, t, key, value, dur) ==
    Res(MapInsert(d, key, Entry_with_expiration(value, dur, t)), TRUE)

\* delete reporting the key without removing it
delete_KeepsKey(d, t, key) == Res(d, key \in DOMAIN d)
delete(d, t, key) == Res(MapRemove(d, key), key \in DOMAIN d)

exists(d, t, key) ==
    IF Live(d, t, key) THEN Res(d, TRUE)
    ELSE IF Stale(d, t, key) THEN Res(MapRemove(d, key), FALSE)
    ELSE Res(d, FALSE)

key_type(d, t, key) ==
    LET r == get(d, t, key)
    IN  Res(r.data, IF IsSome(r.ret) THEN Some(Unwrap(r.ret).type) ELSE None)

expire(d, t, key, dur) ==
    IF Live(d, t, key) THEN Res([d EXCEPT ![key] = set_expiration(d[key], dur, t)], TRUE)
    ELSE IF Stale(d, t, key) THEN Res(MapRemove(d, key), FALSE)
    ELSE Res(d, FALSE)

persist(d, t, key) ==
    IF Live(d, t, key) THEN Res([d EXCEPT ![key] = remove_expiration(d[key])], TRUE)
    ELSE IF Stale(d, t, key) THEN Res(MapRemove(d, key), FALSE)
    ELSE Res(d, FALSE)

ttl(d, t, key) ==
    IF Live(d, t, key) THEN Res(d, Entry_ttl(d[key], t))
    ELSE IF Stale(d, t, key) THEN Res(MapRemove(d, key), None)
    ELSE Res(d, None)

---------------------------------------------------------------------------
(* List methods *)

\* the entry a create-if-absent write works on: the live entry when it holds
\* type ty, the live entry with its value replaced by `fresh` when it holds
\* another type, a new Entry otherwise (after removing an expired one)
\* variant: an entry whose deadline has passed is written to like a live one
Container_ReusesExpired(d, t, key, ty, fresh) ==
    IF key \in DOMAIN d
    THEN IF d[key].value.type = ty THEN d ELSE WithValue(d, key, fresh)
    ELSE MapInsert(d, key, Entry_new(fresh))

Container(d, t, key, ty, fresh) ==
    IF Live(d, t, key)
    THEN IF d[key].value.type = ty THEN d ELSE WithValue(d, key, fresh)
    ELSE IF Stale(d, t, key) THEN MapInsert(MapRemove(d, key), key, Entry_new(fresh))
    ELSE MapInsert(d, key, Entry_new(fresh))

Reverse(s) == [i \in 1 .. Len(s) |-> s[Len(s) + 1 - i]]

\* for value in vs { elements.insert(0, value) }
RECURSIVE InsertEachAtHead(_, _)
InsertEachAtHead(es, vs) ==
    IF vs = << >> THEN es ELSE InsertEachAtHead(<< Head(vs) >> \o es, Tail(vs))

lpush(d, t, key, values) ==
    LET d1 == Container(d, t, key, "list", ListValue_new)
        es == InsertEachAtHead(d1[key].value.elements, Reverse(values))
    IN  Res(WithValue(d1, key, ListValue(es)), Len(es))

rpush(d, t, key, values) ==
    LET d1 == Container(d, t, key, "list", ListValue_new)
        es == d1[key].value.elements \o values
    IN  Res(WithValue(d1, key, ListValue(es)), Len(es))

\* for _ in 0..count { pop_left / pop_right or break }: <<popped, rest>>
RECURSIVE PopLoop(_, _, _, _)
PopLoop(es, count, popped, left) ==
    IF count = 0 \/ es = << >> THEN << popped, es >>
    ELSE IF left
         THEN PopLoop(Tail(es), count - 1, Append(popped, Head(es)), left)
         ELSE PopLoop(SubSeq(es, 1, Len(es) - 1), count - 1,
                      Append(popped, es[Len(es)]), left)

\* variant: a list that a pop leaves empty is removed with its key
PopFrom_DeletesEmptied(d, t, key, count, left) ==
    IF Live(d, t, key)
    THEN IF d[key].value.type = "list"
         THEN LET r == PopLoop(d[key].value.elements, count, << >>, left)
              IN  [data |-> IF r[2] = << >> THEN MapRemove(d, key)
                            ELSE WithValue(d, key, ListValue(r[2])),
                   ret |-> IF r[1] = << >> THEN None ELSE Some(r[1]),
                   panic |-> FALSE]
         ELSE Res(d, None)
    ELSE IF Stale(d, t, key) THEN Res(MapRemove(d, key), None)
    ELSE Res(d, None)

PopFrom(d, t, key, count, left) ==
    IF Live(d, t, key)
    THEN IF d[key].value.type = "list"
         THEN LET r == PopLoop(d[key].value.elements, count, << >>, left)
              IN  [data |-> WithValue(d, key, ListValue(r[2])),
                   ret |-> IF r[1] = << >> THEN None ELSE Some(r[1]),
                   panic |-> FALSE]
         ELSE Res(d, None)
    ELSE IF Stale(d, t, key) THEN Res(MapRemove(d, key), None)
    ELSE Res(d, None)

lpop(d, t, key, count) == PopFrom(d, t, key, count, TRUE)

rpop(d, t, key, count) == PopFrom(d, t, key, count, FALSE)

llen_hit(v) == Some(Len(v.elements))
llen(d, t, key) == TypedRead(d, t, key, "list", llen_hit, None)

---------------------------------------------------------------------------
(* i64 / usize arithmetic of the range methods *)

I64_MIN == -(2 ^ (I64Bits - 1))
I64_MAX == 2 ^ (I64Bits - 1) - 1

Overflows(x) == x < I64_MIN \/ x > I64_MAX
Wrap(x) == ((x - I64_MIN) % (2 ^ I64Bits)) + I64_MIN
\* `x as usize` of an i64
as_usize(x) == IF x < 0 THEN x + 2 ^ I64Bits ELSE x

\* start_idx and stop_idx of lrange / zrange for a container of length n.
\* checks: the build has overflow checks (debug), so `stop + 1` panics on
\* overflow; without them (release) it wraps.
start_idx(n, start) ==
    as_usize(IF start < 0 THEN Max(n + start, 0) ELSE Min(start, n))

stop_idx(n, stop) ==
    as_usize(IF stop < 0 THEN Max(n + stop + 1, 0) ELSE Min(Wrap(stop + 1), n))

RangeOverflows(stop) == stop >= 0 /\ Overflows(stop + 1)

\* the slice elements[start_idx..stop_idx] of lrange, or a panic:
\* [panic, items]
Window(es, start, stop, checks) ==
    LET n == Len(es)
        lo == start_idx(n, start)
        hi == stop_idx(n, stop)
    IN  IF checks /\ RangeOverflows(stop) THEN [panic |-> TRUE, items |-> << >>]
        ELSE IF lo >= hi \/ lo >= n THEN [panic |-> FALSE, items |-> << >>]
        ELSE IF hi > n THEN [panic |-> TRUE, items |-> << >>]   \* slice end out of range
        ELSE [panic |-> FALSE, items |-> SubSeq(es, lo + 1, hi)]

\* iter().skip(start_idx).take(stop_idx - start_idx) of zrange: a stop_idx
\* past the end takes what is there
SkipTake(es, start, stop, checks) ==
    LET n == Len(es)
        lo == start_idx(n, start)
        hi == stop_idx(n, stop)
    IN  IF checks /\ RangeOverflows(stop) THEN [panic |-> TRUE, items |-> << >>]
        ELSE IF lo >= hi \/ lo >= n THEN [panic |-> FALSE, items |-> << >>]
        ELSE [panic |-> FALSE, items |-> SubSeq(es, lo + 1, Min(hi, n))]

lrange(d, t, key, start, stop, checks) ==
    IF Live(d, t, key)
    THEN IF d[key].value.type = "list"
         THEN LET w == Window(d[key].value.elements, start, stop, checks)
              IN  IF w.panic THEN Panicked(d) ELSE Res(d, Some(w.items))
         ELSE Res(d, None)
    ELSE IF Stale(d, t, key) THEN Res(MapRemove(d, key), None)
    ELSE Res(d, None)

---------------------------------------------------------------------------
(* Set methods *)

SeqToSet(s) == {s[i] : i \in 1 .. Len(s)}

\* sadd counting every name of the call
sadd_CountsEveryName(d, t, key, members) ==
    LET d1 == Container(d, t, key, "set", SetValue_new)
        after == d1[key].value.members \cup SeqToSet(members)
    IN  Res(WithValue(d1, key, SetValue(after)), Len(members))

sadd(d, t, key, members) ==
    LET d1 == Container(d, t, key, "set", SetValue_new)
        before == d1[key].value.members
        after == before \cup SeqToSet(members)
    IN  Res(WithValue(d1, key, SetValue(after)), Cardinality(after) - Cardinality(before))

\* srem counting every name of the call
srem_CountsEveryName(d, t, key, members) ==
    IF Live(d, t, key)
    THEN IF d[key].value.type = "set"
         THEN Res(WithValue(d, key, SetValue(d[key].value.members \ SeqToSet(members))),
                  Len(members))
         ELSE Res(d, 0)
    ELSE IF Stale(d, t, key) THEN Res(MapRemove(d, key), 0)
    ELSE Res(d, 0)

srem(d, t, key, members) ==
    IF Live(d, t, key)
    THEN IF d[key].value.type = "set"
         THEN LET before == d[key].value.members
                  after == before \ SeqToSet(members)
              IN  Res(WithValue(d, key, SetValue(after)),
                      Cardinality(before) - Cardinality(after))
         ELSE Res(d, 0)
    ELSE IF Stale(d, t, key) THEN Res(MapRemove(d, key), 0)
    ELSE Res(d, 0)

smembers_hit(v) == Some(v.members)
smembers(d, t, key) == TypedRead(d, t, key, "set", smembers_hit, None)

scard_hit(v) == Some(Cardinality(v.members))
scard(d, t, key) == TypedRead(d, t, key, "set", scard_hit, None)

s_ismember(d, t, key, member) ==
    LET hit(v) == Some(member \in v.members)
    IN  TypedRead(d, t, key, "set", hit, None)

---------------------------------------------------------------------------
(* Hash methods; pairs is a sequence of <<field, value>> *)

\* for (field, value) in pairs: count the field when new, then insert:
\* <<fields, sz>>
RECURSIVE HSetLoop(_, _, _)
HSetLoop(fields, pairs, sz) ==
    IF pairs = << >> THEN << fields, sz >>
    ELSE LET field == Head(pairs)[1]
             value == Head(pairs)[2]
         IN  HSetLoop(MapInsert(fields, field, value), Tail(pairs),
                      IF field \notin DOMAIN fields THEN sz + 1 ELSE sz)

\* hset counting every pair of the call
hset_CountsEveryPair(d, t, key, pairs) ==
    LET d1 == Container(d, t, key, "hash", HashValue_new)
        r == HSetLoop(d1[key].value.fields, pairs, 0)
    IN  Res(WithValue(d1, key, HashValue(r[1])), Len(pairs))

hset(d, t, key, pairs) ==
    LET d1 == Container(d, t, key, "hash", HashValue_new)
        r == HSetLoop(d1[key].value.fields, pairs, 0)
    IN  Res(WithValue(d1, key, HashValue(r[1])), r[2])

hmset(d, t, key, pairs) == hset(d, t, key, pairs)

FieldGet(fields, field) ==
    IF field \in DOMAIN fields THEN Some(fields[field]) ELSE None

hget(d, t, key, field) ==
    LET hit(v) == FieldGet(v.fields, field)
    IN  TypedRead(d, t, key, "hash", hit, None)

hdel(d, t, key, fields) ==
    IF Live(d, t, key)
    THEN IF d[key].value.type = "hash"
         THEN LET before == d[key].value.fields
                  after == [f \in (DOMAIN before) \ SeqToSet(fields) |-> before[f]]
              IN  Res(WithValue(d, key, HashValue(after)),
                      Cardinality(DOMAIN before) - Cardinality(DOMAIN after))
         ELSE Res(d, 0)
    ELSE IF Stale(d, t, key) THEN Res(MapRemove(d, key), 0)
    ELSE Res(d, 0)

hmget(d, t, key, fields) ==
    LET hit(v) == Some([i \in 1 .. Len(fields) |-> FieldGet(v.fields, fields[i])])
    IN  TypedRead(d, t, key, "hash", hit, None)

hexists(d, t, key, field) ==
    LET hit(v) == field \in DOMAIN v.fields
    IN  TypedRead(d, t, key, "hash", hit, FALSE)

hlen_hit(v) == Cardinality(DOMAIN v.fields)
hlen(d, t, key) == TypedRead(d, t, key, "hash", hlen_hit, 0)

\* hkeys / hvals collect in HashMap iteration order, which is unspecified:
\* the result is given as the set of keys and the bag of values
hkeys_hit(v) == Some(DOMAIN v.fields)
hkeys(d, t, key) == TypedRead(d, t, key, "hash", hkeys_hit, None)

hvals_hit(v) ==
    Some([x \in {v.fields[f] : f \in DOMAIN v.fields} |->
            Cardinality({f \in DOMAIN v.fields : v.fields[f] = x})])
hvals(d, t, key) == TypedRead(d, t, key, "hash", hvals_hit, None)

hgetall_hit(v) == Some(v.fields)
hgetall(d, t, key) == TypedRead(d, t, key, "hash", hgetall_hit, None)

---------------------------------------------------------------------------
(* Sorted-set methods; members is a sequence of <<score, member>> *)

\* for (score, member) in members: a member not in member_scores is
\* inserted into both maps (BTreeMap::insert replaces the value of an equal
\* key) and counted; a member already there is skipped: <<zset, added>>
RECURSIVE ZAddLoop(_, _, _)
ZAddLoop(zset, members, added) ==
    IF members = << >> THEN << zset, added >>
    ELSE LET score == Head(members)[1]
             member == Head(members)[2]
         IN  IF member \notin DOMAIN zset.member_scores
             THEN ZAddLoop(SortedSetValue(MapInsert(zset.members, score, member),
                                          MapInsert(zset.member_scores, member, score)),
                           Tail(members), added + 1)
             ELSE ZAddLoop(zset, Tail(members), added)

zadd(d, t, key, members) ==
    LET d1 == Container(d, t, key, "zset", SortedSetValue_new)
        r == ZAddLoop(d1[key].value, members, 0)
    IN  Res(WithValue(d1, key, r[1]), r[2])

\* for member in members: if let Some(score) = member_scores.remove(member)
\* { members.remove(score); removed += 1 }
RECURSIVE ZRemLoop(_, _, _)
ZRemLoop(zset, members, removed) ==
    IF members = << >> THEN << zset, removed >>
    ELSE LET member == Head(members)
         IN  IF member \in DOMAIN zset.member_scores
             THEN ZRemLoop(SortedSetValue(
                               MapRemove(zset.members, zset.member_scores[member]),
                               MapRemove(zset.member_scores, member)),
                           Tail(members), removed + 1)
             ELSE ZRemLoop(zset, Tail(members), removed)

zrem(d, t, key, members) ==
    IF Live(d, t, key)
    THEN IF d[key].value.type = "zset"
         THEN LET r == ZRemLoop(d[key].value, members, 0)
              IN  Res(WithValue(d, key, r[1]), r[2])
         ELSE Res(d, 0)
    ELSE IF Stale(d, t, key) THEN Res(MapRemove(d, key), 0)
    ELSE Res(d, 0)

\* BTreeMap::iter: the <<score, member>> slots in ascending score order
RECURSIVE BTreeIter(_)
BTreeIter(m) ==
    IF DOMAIN m = {} THEN << >>
    ELSE LET lo == CHOOSE x \in DOMAIN m : \A y \in DOMAIN m : x <= y
         IN  << << lo, m[lo] >> >> \o BTreeIter(MapRemove(m, lo))

\* zrange yields (member, score), the score 0.0 without with_scores
zrange(d, t, key, start, stop, with_scores, checks) ==
    IF Live(d, t, key)
    THEN IF d[key].value.type = "zset"
         THEN LET w == SkipTake(BTreeIter(d[key].value.members), start, stop, checks)
              IN  IF w.panic THEN Panicked(d)
                  ELSE Res(d, Some([i \in 1 .. Len(w.items) |->
                          << w.items[i][2], IF with_scores THEN w.items[i][1] ELSE 0 >>]))
         ELSE Res(d, None)
    ELSE IF Stale(d, t, key) THEN Res(MapRemove(d, key), None)
    ELSE Res(d, None)

zcard_hit(v) == Cardinality(DOMAIN v.members)
zcard(d, t, key) == TypedRead(d, t, key, "zset", zcard_hit, 0)

zscore(d, t, key, member) ==
    LET hit(v) == FieldGet(v.member_scores, member)
    IN  TypedRead(d, t, key, "zset", hit, None)

---------------------------------------------------------------------------
(* The store as a state machine: one action per CacheStore method *)

NoCall ==
    [op |-> "init", key |-> "", args |-> << >>, ret |-> None, panic |-> FALSE,
     pre |-> None, at |-> 0]

Init ==
    /\ data = EmptyMap
    /\ now = 0
    /\ last = NoCall
    /\ conns = << >>
    /\ lock = {}

\* the call op(key, args) with outcome r becomes the state
Call(op, key, args, r) ==
    /\ data' = r.data
    /\ last' = [op |-> op, key |-> key, args |-> args, ret |-> r.ret,
                panic |-> r.panic,
                pre |-> IF key \in DOMAIN data THEN Some(data[key]) ELSE None,
                at |-> now]
    /\ UNCHANGED << now, conns, lock >>

\* time passes between calls
Tick ==
    /\ now < MaxTime
    /\ now' = now + 1
    /\ UNCHANGED << data, last, conns, lock >>

\* length of the list a push on key would extend
ListLenAt(k) ==
    IF Live(data, now, k) /\ data[k].value.type = "list"
    THEN Len(data[k].value.elements) ELSE 0

\* the indexes a range call on a container of up to L items is tried with:
\* every index around the container, two far ones and the extremes of i64
Indexes(L) == {I64_MIN, -100, 100, I64_MAX} \cup (-(L + 1) .. (L + 1))
FewIndexes == {-1, 0}

\* argument vectors of exactly one item
Args1(S) == [1 .. 1 -> S]

\* V: the strings tried, D: the TTLs tried, A: the argument vectors tried,
\* I: the indexes tried
DoGet(k) ==
    /\ Call("get", k, << >>, get(data, now, k))
DoSet(k, V) ==
    \E v \in V :
        /\ Call("set", k, << v >>, set(data, now, k, StringValue(v)))
DoSetWithExpiration(k, V, D) ==
    \E v \in V, dur \in D :
        /\ Call("set_with_expiration", k, << v, dur >>,
             set_with_expiration(data, now, k, StringValue(v), dur))
DoDelete(k) ==
    /\ Call("delete", k, << >>, delete(data, now, k))
DoExists(k) ==
    /\ Call("exists", k, << >>, exists(data, now, k))
DoKeyType(k) ==
    /\ Call("key_type", k, << >>, key_type(data, now, k))
DoExpire(k, D) ==
    \E dur \in D :
        /\ Call("expire", k, << dur >>, expire(data, now, k, dur))
DoPersist(k) ==
    /\ Call("persist", k, << >>, persist(data, now, k))
DoTtl(k) ==
    /\ Call("ttl", k, << >>, ttl(data, now, k))
DoCleanupExpired ==
    /\ Call("cleanup_expired", "", << >>, cleanup_expired(data, now))

\* L: the longest list the model lets a push build
DoLPush(k, A, L) ==
    \E vs \in A :
        /\ ListLenAt(k) + Len(vs) <= L
        /\ Call("lpush", k, << vs >>, lpush(data, now, k, vs))
DoRPush(k, A, L) ==
    \E vs \in A :
        /\ ListLenAt(k) + Len(vs) <= L
        /\ Call("rpush", k, << vs >>, rpush(data, now, k, vs))
DoLPop(k) ==
    \E n \in 0 .. MaxArgs :
        /\ Call("lpop", k, << n >>, lpop(data, now, k, n))
DoRPop(k) ==
    \E n \in 0 .. MaxArgs :
        /\ Call("rpop", k, << n >>, rpop(data, now, k, n))
DoLLen(k) ==
    /\ Call("llen", k, << >>, llen(data, now, k))
\* the build's overflow checks matter only to a call that overflows
Builds(stop) == IF RangeOverflows(stop) THEN BOOLEAN ELSE {FALSE}

DoLRange(k, I) ==
    \E start \in I, stop \in I :
      \E checks \in Builds(stop) :
        /\ Call("lrange", k, << start, stop, checks >>,
             lrange(data, now, k, start, stop, checks))

DoSAdd(k, A) ==
    \E ms \in A :
        /\ Call("sadd", k, << ms >>, sadd(data, now, k, ms))
DoSRem(k, A) ==
    \E ms \in A :
        /\ Call("srem", k, << ms >>, srem(data, now, k, ms))
DoSMembers(k) ==
    /\ Call("smembers", k, << >>, smembers(data, now, k))
DoSCard(k) ==
    /\ Call("scard", k, << >>, scard(data, now, k))
DoSIsMember(k, V) ==
    \E m \in V :
        /\ Call("s_ismember", k, << m >>, s_ismember(data, now, k, m))

DoHSet(k, A) ==
    \E ps \in A :
        /\ Call("hset", k, << ps >>, hset(data, now, k, ps))
DoHMSet(k, A) ==
    \E ps \in A :
        /\ Call("hmset", k, << ps >>, hmset(data, now, k, ps))
DoHGet(k, V) ==
    \E f \in V :
        /\ Call("hget", k, << f >>, hget(data, now, k, f))
DoHDel(k, A) ==
    \E fs \in A :
        /\ Call("hdel", k, << fs >>, hdel(data, now, k, fs))
DoHMGet(k, A) ==
    \E fs \in A :
        /\ Call("hmget", k, << fs >>, hmget(data, now, k, fs))
DoHExists(k, V) ==
    \E f \in V :
        /\ Call("hexists", k, << f >>, hexists(data, now, k, f))
DoHLen(k) ==
    /\ Call("hlen", k, << >>, hlen(data, now, k))
DoHKeys(k) ==
    /\ Call("hkeys", k, << >>, hkeys(data, now, k))
DoHVals(k) ==
    /\ Call("hvals", k, << >>, hvals(data, now, k))
DoHGetAll(k) ==
    /\ Call("hgetall", k, << >>, hgetall(data, now, k))

DoZAdd(k, A) ==
    \E ms \in A :
        /\ Call("zadd", k, << ms >>, zadd(data, now, k, ms))
DoZRem(k, A) ==
    \E ms \in A :
        /\ Call("zrem", k, << ms >>, zrem(data, now, k, ms))
DoZRange(k, I) ==
    \E start \in I, stop \in I, ws \in BOOLEAN :
      \E checks \in Builds(stop) :
        /\ Call("zrange", k, << start, stop, ws, checks >>,
             zrange(data, now, k, start, stop, ws, checks))
DoZCard(k) ==
    /\ Call("zcard", k, << >>, zcard(data, now, k))
DoZScore(k, V) ==
    \E m \in V :
        /\ Call("zscore", k, << m >>, zscore(data, now, k, m))

---------------------------------------------------------------------------
(* Spec: every method on one key, each with one-item argument vectors over *)
(* one string, with time passing between calls                             *)

OneElem == {"a"}
OneScore == {1}

Next ==
    \/ Tick
    \/ DoCleanupExpired
    \/ \E k \in Keys :
        \/ DoGet(k) \/ DoSet(k, OneElem) \/ DoSetWithExpiration(k, OneElem, TTLs)
        \/ DoDelete(k) \/ DoExists(k) \/ DoKeyType(k) \/ DoExpire(k, TTLs)
        \/ DoPersist(k) \/ DoTtl(k)
        \/ DoLPush(k, Args1(OneElem), MaxListLen)
        \/ DoRPush(k, Args1(OneElem), MaxListLen)
        \/ DoLPop(k) \/ DoRPop(k) \/ DoLLen(k) \/ DoLRange(k, FewIndexes)
        \/ DoSAdd(k, Args1(OneElem)) \/ DoSRem(k, Args1(OneElem))
        \/ DoSMembers(k) \/ DoSCard(k) \/ DoSIsMember(k, OneElem)
        \/ DoHSet(k, Args1(OneElem \X OneElem)) \/ DoHMSet(k, Args1(OneElem \X OneElem))
        \/ DoHGet(k, OneElem) \/ DoHDel(k, Args1(OneElem)) \/ DoHMGet(k, Args1(OneElem))
        \/ DoHExists(k, OneElem) \/ DoHLen(k) \/ DoHKeys(k) \/ DoHVals(k)
        \/ DoHGetAll(k)
        \/ DoZAdd(k, Args1(OneScore \X OneElem)) \/ DoZRem(k, Args1(OneElem))
        \/ DoZRange(k, FewIndexes) \/ DoZCard(k) \/ DoZScore(k, OneElem)

Spec == Init /\ [][Next]_vars

---------------------------------------------------------------------------
(* SpecList: the list methods on one key, argument vectors of up to        *)
(* MaxArgs strings, lrange over the boundary indexes; no expiration        *)

NextList ==
    \E k \in Keys :
        \/ DoLPush(k, Args(Elems), MaxRangeLen) \/ DoRPush(k, Args(Elems), MaxRangeLen)
        \/ DoLPop(k) \/ DoRPop(k) \/ DoLLen(k) \/ DoLRange(k, Indexes(MaxRangeLen))
        \/ DoDelete(k)

SpecList == Init /\ [][NextList]_vars

(* SpecZSet: the sorted-set methods on one key *)

NextZSet ==
    \E k \in Keys :
        \/ DoZAdd(k, Args(Scores \X Elems)) \/ DoZRem(k, Args(Elems))
        \/ DoZRange(k, Indexes(MaxScore)) \/ DoZCard(k) \/ DoZScore(k, Elems)
        \/ DoDelete(k)

SpecZSet == Init /\ [][NextZSet]_vars

(* SpecSet: the set methods on one key, argument vectors of up to MaxArgs  *)
(* strings, repeated names included; the set may be given a deadline and   *)
(* time passes                                                             *)

NextSet ==
    \/ Tick
    \/ \E k \in Keys :
        \/ DoSAdd(k, Args(Elems)) \/ DoSRem(k, Args(Elems))
        \/ DoSMembers(k) \/ DoSCard(k) \/ DoSIsMember(k, Elems)
        \/ DoDelete(k) \/ DoExpire(k, TTLs)

SpecSet == Init /\ [][NextSet]_vars

(* SpecHash: the hash methods on one key, vectors of up to MaxArgs pairs,  *)
(* repeated fields included                                                *)

NextHash ==
    \E k \in Keys :
        \/ DoHSet(k, Args(Elems \X Elems)) \/ DoHMSet(k, Args(Elems \X Elems))
        \/ DoHGet(k, Elems) \/ DoHDel(k, Args(Elems)) \/ DoHMGet(k, Args(Elems))
        \/ DoHExists(k, Elems) \/ DoHLen(k) \/ DoHKeys(k) \/ DoHVals(k)
        \/ DoHGetAll(k) \/ DoDelete(k)

SpecHash == Init /\ [][NextHash]_vars

(* SpecKeys: methods of every kind on two keys, with deadlines and time    *)
(* passing: writes that create, writes that meet another type, reads and   *)
(* writes that evict an expired entry                                      *)

TwoKeys == {"k1", "k2"}

NextKeys ==
    \/ Tick
    \/ \E k \in TwoKeys :
        \/ DoSetWithExpiration(k, OneElem, TTLs) \/ DoDelete(k)
        \/ DoExpire(k, TTLs) \/ DoLPush(k, Args1(OneElem), 1)
        \/ DoZAdd(k, Args1(OneScore \X OneElem)) \/ DoZRem(k, Args1(OneElem))

SpecKeys == Init /\ [][NextKeys]_vars

---------------------------------------------------------------------------
(* RESP frames, reply encoding and the command parser (src/src/protocol)   *)

BulkString(s) == [kind |-> "bulk", val |-> s]
IntegerFrame(n) == [kind |-> "integer", val |-> n]
ErrorFrame(msg) == [kind |-> "error", val |-> msg]
ArrayFrame(items) == [kind |-> "array", val |-> items]
\* an array of bulk strings
BulkArray(ss) == ArrayFrame([i \in 1 .. Len(ss) |-> BulkString(ss[i])])

\* Result<T>
Ok(x) == [ok |-> TRUE, val |-> x]
Err(msg) == [ok |-> FALSE, val |-> msg]

\* a byte string that is not valid UTF-8
InvalidUtf8 == "\\xFF"
from_utf8(bytes) == IF bytes = InvalidUtf8 THEN Err("invalid utf-8") ELSE Ok(bytes)

\* str::to_uppercase on the strings of the model
to_uppercase(s) ==
    CASE s = "get" -> "GET"
      [] s = "a" -> "A"
      [] s = "k1" -> "K1"
      [] s = "abc" -> "ABC"
      [] OTHER -> s

\* str::parse::<u64> on the strings of the model
parse_u64(s) ==
    CASE s = "0" -> Ok(0)
      [] s = "1" -> Ok(1)
      [] OTHER -> Err("invalid digit found in string")

encode_integer(v) == Ok(IntegerFrame(v))
\* an error message is the sequence of its literal and formatted pieces
encode_error(err_msg) == Ok(ErrorFrame(err_msg))

\* a set or hash is sent in the iteration order of its HashSet / HashMap,
\* which is unspecified: the array is given by its items, unordered
encode_value(value) ==
    CASE value.type = "string" -> Ok(BulkString(value.data))
      [] value.type = "list" -> Ok(BulkArray(value.elements))
      [] value.type = "set" -> Ok(ArrayFrame({BulkString(m) : m \in value.members}))
      [] value.type = "hash" ->
            Ok(ArrayFrame({<< BulkString(f), BulkString(value.fields[f]) >> :
                              f \in DOMAIN value.fields}))
      [] OTHER -> Err("not supported")

extract_command_args(frame) ==
    IF frame.kind # "array" THEN Err("Expected array frame for command")
    ELSE LET n == Len(frame.val)
             bad == {i \in 1 .. n :
                        \/ frame.val[i].kind \notin {"bulk", "simple"}
                        \/ ~from_utf8(frame.val[i].val).ok}
         IN  IF bad = {} THEN Ok([i \in 1 .. n |-> frame.val[i].val])
             ELSE LET i == CHOOSE x \in bad : \A y \in bad : x <= y
                  IN  IF frame.val[i].kind \notin {"bulk", "simple"}
                      THEN Err("Invalid argument type in command array")
                      ELSE Err("Invalid UTF-8 in command argument")

\* a parsed command: its family (the Command variant), its name (the
\* variant of the family's enum), its key and its other fields
Cmd(family, name, key, args) ==
    [family |-> family, name |-> name, key |-> key, args |-> args]

SetOptions_default == [expire |-> None, condition |-> None, get |-> FALSE]

parse_get(args) ==
    IF Len(args) # 2 THEN Err("GET requires exactly 1 argument")
    ELSE Ok(Cmd("string", "Get", args[2], << >>))

\* the while loop of parse_set from index i (1-based)
RECURSIVE SetOptionsLoop(_, _, _)
SetOptionsLoop(args, i, options) ==
    IF i > Len(args) THEN Ok(options)
    ELSE LET opt == to_uppercase(args[i])
         IN  IF opt \in {"EX", "PX", "EXAT", "PXAT"}
             THEN IF i + 1 > Len(args) THEN Err("requires a value")
                  ELSE IF ~parse_u64(args[i + 1]).ok THEN Err("Invalid value")
                  ELSE SetOptionsLoop(args, i + 2,
                           [options EXCEPT !.expire =
                               Some(<< opt, parse_u64(args[i + 1]).val >>)])
             ELSE IF opt \in {"NX", "XX"}
             THEN SetOptionsLoop(args, i + 1, [options EXCEPT !.condition = Some(opt)])
             ELSE IF opt = "KEEPTTL"
             THEN SetOptionsLoop(args, i + 1, [options EXCEPT !.expire = Some(<< opt >>)])
             ELSE IF opt = "GET"
             THEN SetOptionsLoop(args, i + 1, [options EXCEPT !.get = TRUE])
             ELSE Err("Unknown SET option")

parse_set(args) ==
    IF Len(args) < 3 THEN Err("SET requires at least 2 arguments")
    ELSE LET o == SetOptionsLoop(args, 4, SetOptions_default)
         IN  IF o.ok THEN Ok(Cmd("string", "Set", args[2], << args[3], o.val >>))
             ELSE o

parse_getset(args) ==
    IF Len(args) # 3 THEN Err("GETSET requires exactly 2 arguments")
    ELSE Ok(Cmd("string", "GetSet", args[2], << args[3] >>))

\* the parsers of GET, SET and GETSET; no frame of the model carries
\* another string command
StringCommand_from_frame_args(args) ==
    IF args = << >> THEN Err("Empty command")
    ELSE LET cmd_name == to_uppercase(args[1])
         IN  CASE cmd_name = "GET" -> parse_get(args)
               [] cmd_name = "SET" -> parse_set(args)
               [] cmd_name = "GETSET" -> parse_getset(args)
               [] OTHER -> Err("Unknown string command")

parse_lpush(args) ==
    IF Len(args) < 3 THEN Err("LPUSH requires at least 2 arguments")
    ELSE Ok(Cmd("list", "LPush", args[2], << SubSeq(args, 3, Len(args)) >>))

parse_llen(args) ==
    IF Len(args) # 2 THEN Err("LLEN requires exactly 1 argument")
    ELSE Ok(Cmd("list", "LLen", args[2], << >>))

\* args.get(2).and_then(|s| s.parse::<u64>().ok()): the third argument as a
\* count, None when it is missing or is no number
PopCount(args) ==
    IF Len(args) >= 3 /\ parse_u64(args[3]).ok THEN Some(parse_u64(args[3]).val)
    ELSE None

parse_lpop(args) ==
    IF Len(args) # 2 THEN Err("LPOP requires exactly 2 argument")
    ELSE Ok(Cmd("list", "LPop", args[2], << PopCount(args) >>))

parse_rpop(args) ==
    IF Len(args) # 2 THEN Err("RPOP requires exactly 2 argument")
    ELSE Ok(Cmd("list", "RPop", args[2], << PopCount(args) >>))

\* the parsers of LPUSH, LPOP, RPOP and LLEN; no frame of the model carries
\* RPUSH or LRANGE
ListCommand_from_frame_args(args) ==
    IF args = << >> THEN Err("Empty command")
    ELSE LET cmd_name == to_uppercase(args[1])
         IN  CASE cmd_name = "LPUSH" -> parse_lpush(args)
               [] cmd_name = "LPOP" -> parse_lpop(args)
               [] cmd_name = "RPOP" -> parse_rpop(args)
               [] cmd_name = "LLEN" -> parse_llen(args)
               [] OTHER -> Err("Unknown list command")

StringNames ==
    {"GET", "SET", "GETSET", "SETNX", "SETEX", "MGET", "MSET", "MSETNX", "APPEND",
     "STRLEN", "INCR", "INCRBY", "INCRBYFLOAT", "DECR", "DECRBY", "GETRANGE",
     "SETRANGE"}
ListNames == {"LPUSH", "RPUSH", "LPOP", "RPOP", "LLEN", "LRANGE"}

\* str::parse::<f64> on the strings of the model: a number, or NaN, which
\* the standard parser accepts in any letter case
F64(x) == [nan |-> FALSE, val |-> x]
NaN == [nan |-> TRUE, val |-> 0]
parse_f64(s) ==
    CASE s = "1" -> Ok(F64(1))
      [] s = "2" -> Ok(F64(2))
      [] s = "NaN" -> Ok(NaN)
      [] OTHER -> Err("invalid float literal")

\* a panic of the parser: args[i] with i past the end of the slice
IndexOutOfBounds == [panic |-> TRUE]
Panics(r) == "panic" \in DOMAIN r

\* the for loop of parse_hset from index i (1-based), step 2
RECURSIVE HSetPairsLoop(_, _, _)
HSetPairsLoop(args, i, pairs) ==
    IF i > Len(args) THEN Ok(pairs)
    ELSE IF i + 1 > Len(args) THEN IndexOutOfBounds
    ELSE HSetPairsLoop(args, i + 2, Append(pairs, << args[i], args[i + 1] >>))

parse_hset(args) ==
    IF Len(args) < 4 \/ Len(args) % 2 # 0
    THEN Err("HSET requires at least 3 arguments and even number of arguments")
    ELSE LET pairs == HSetPairsLoop(args, 3, << >>)
         IN  IF Panics(pairs) THEN pairs
             ELSE Ok(Cmd("hash", "HSet", args[2], << pairs.val >>))

\* the for loop of parse_zadd from index i (1-based), step 2
RECURSIVE ZAddPairsLoop(_, _, _)
ZAddPairsLoop(args, i, pairs) ==
    IF i > Len(args) THEN Ok(pairs)
    ELSE LET score == parse_f64(args[i])
         IN  IF ~score.ok THEN Err(<< "Invalid score value: ", args[i] >>)
             ELSE IF i + 1 > Len(args) THEN IndexOutOfBounds
             ELSE ZAddPairsLoop(args, i + 2, Append(pairs, << score.val, args[i + 1] >>))

ZAddOptions_default == [condition |-> None]

parse_zadd(args) ==
    IF Len(args) < 4 \/ Len(args) % 2 # 0
    THEN Err("ZADD requires at least 3 arguments and even number of arguments")
    ELSE LET opt == to_uppercase(args[3])
             has_option == opt \in {"NX", "XX"}
             options == IF has_option THEN [condition |-> Some(opt)]
                        ELSE ZAddOptions_default
             start_index == IF has_option THEN 4 ELSE 3
             pairs == ZAddPairsLoop(args, start_index, << >>)
         IN  IF Panics(pairs) \/ ~pairs.ok THEN pairs
             ELSE Ok(Cmd("zset", "ZAdd", args[2], << options, pairs.val >>))

\* the set and hash families route like the list family; no frame of the
\* model carries their names
from_frame(frame) ==
    LET a == extract_command_args(frame)
    IN  IF ~a.ok THEN a
        ELSE IF a.val = << >> THEN Err("Empty command")
        ELSE LET cmd_name == to_uppercase(a.val[1])
             IN  IF cmd_name \in StringNames THEN StringCommand_from_frame_args(a.val)
                 ELSE IF cmd_name \in ListNames THEN ListCommand_from_frame_args(a.val)
                 ELSE Ok(Cmd("unknown", cmd_name, "", << Tail(a.val) >>))

---------------------------------------------------------------------------
(* Command handlers (src/src/commands): Handler(cmd, d, t) -> [data, res], *)
(* res the Result<BytesFrame> the handler returns                          *)

Handled(d, res) == [data |-> d, res |-> res]

\* commands/handlers.rs
handle_string_value(cmd, d, t) ==
    CASE cmd.name = "Get" ->
            LET r == get(d, t, cmd.key)
            IN  IF r.ret = None THEN Handled(r.data, encode_error(<< "key not found" >>))
                ELSE Handled(r.data, encode_value(Unwrap(r.ret)))
      [] cmd.name = "Set" ->
            LET r == set(d, t, cmd.key, StringValue(cmd.args[1]))
            IN  Handled(r.data, encode_value(StringValue("OK")))
      [] OTHER -> Handled(d, encode_error(<< "Unknown command" >>))

CmdHandler_handle_cmd(cmd, d, t) ==
    IF cmd.family = "string" THEN handle_string_value(cmd, d, t)
    ELSE Handled(d, Err("unknown command"))

\* commands/list.rs, set.rs, hash.rs, sorted_set.rs: the body of each
\* handler once it holds the store's write guard
handle_lpush(d, t, key, values) ==
    LET r == lpush(d, t, key, values) IN Handled(r.data, encode_integer(r.ret))

handle_sadd(d, t, key, members) ==
    LET r == sadd(d, t, key, members) IN Handled(r.data, encode_integer(r.ret))

handle_hset(d, t, key, pairs) ==
    LET r == hset(d, t, key, pairs) IN Handled(r.data, encode_integer(r.ret))

handle_zadd(d, t, key, members) ==
    LET r == zadd(d, t, key, members) IN Handled(r.data, encode_integer(r.ret))

\* the handler a family's handle_cmd picks for cmd
\* encode_nil
NullFrame == [kind |-> "null", val |-> ""]
encode_nil == Ok(NullFrame)

\* f64::to_string on the scores of the model, which are whole numbers
f64_to_string(x) ==
    << "0", "1", "2", "3", "4", "5", "6", "7", "8", "9" >>[x + 1]

\* for (member, score) in sorted_set: push member, push score.to_string()
RECURSIVE PushPairs(_)
PushPairs(sorted_set) ==
    IF sorted_set = << >> THEN << >>
    ELSE << BulkString(Head(sorted_set)[1]),
            BulkString(f64_to_string(Head(sorted_set)[2])) >>
         \o PushPairs(Tail(sorted_set))

encode_sorted_set(sorted_set) == Ok(ArrayFrame(PushPairs(sorted_set)))

\* commands/sorted_set.rs
handle_zrange(d, t, key, start, stop, with_scores, checks) ==
    LET r == zrange(d, t, key, start, stop, with_scores, checks)
    IN  IF r.panic THEN [data |-> r.data, ret |-> Err("panicked"), panic |-> TRUE]
        ELSE IF r.ret = None THEN Res(r.data, encode_nil)
        ELSE Res(r.data, encode_sorted_set(Unwrap(r.ret)))

\* commands/hash.rs: a field that is absent is sent as the bytes "(nil)"
handle_hmget(d, t, key, fields) ==
    LET r == hmget(d, t, key, fields)
    IN  IF r.ret = None THEN Handled(r.data, encode_nil)
        ELSE LET v == Unwrap(r.ret)
             IN  Handled(r.data, encode_value(ListValue(
                     [i \in 1 .. Len(v) |->
                         IF IsSome(v[i]) THEN Unwrap(v[i]) ELSE "(nil)"])))

FamilyHandler(cmd, d, t) ==
    CASE cmd.name = "LPush" -> handle_lpush(d, t, cmd.key, cmd.args[1])
      [] cmd.name = "SAdd" -> handle_sadd(d, t, cmd.key, cmd.args[1])
      [] cmd.name = "HSet" -> handle_hset(d, t, cmd.key, cmd.args[1])
      [] cmd.name = "ZAdd" -> handle_zadd(d, t, cmd.key, cmd.args[1])

---------------------------------------------------------------------------
(* Connection tasks of Server::run (src/src/server/mod.rs)                 *)

Conns == {"c1", "c2"}
\* commands one connection sends
MaxCmds == 2

\* a task: where it stands, the frame or command in hand, the store it
\* read under the guard, and what became of each frame it has handled
Task(pc, cur, seen, log) == [pc |-> pc, cur |-> cur, seen |-> seen, log |-> log]
Handling(in, res, sent) == [in |-> in, res |-> res, sent |-> sent]

InitConns ==
    /\ data = EmptyMap
    /\ now = 0
    /\ last = NoCall
    /\ conns = [c \in Conns |-> Task("read", None, None, << >>)]
    /\ lock = {}

\* RwLock::write resolves only when no task holds a guard.
\* variant: it resolves at once
write_available_Always(holders) == TRUE

write_available(holders) == holders = {}

\* the commands connection c sends: writes of every container type on one
\* key, with the connection's own element
ElemOf(c) == IF c = "c1" THEN "a" ELSE "b"
ScoreOf(c) == IF c = "c1" THEN 1 ELSE 2
CmdNames == {"LPush", "SAdd", "HSet", "ZAdd"}
CmdOf(c, name) ==
    CASE name = "LPush" -> Cmd("list", name, "k1", << << ElemOf(c) >> >>)
      [] name = "SAdd" -> Cmd("set", name, "k1", << << ElemOf(c) >> >>)
      [] name = "HSet" -> Cmd("hash", name, "k1", << << << ElemOf(c), ElemOf(c) >> >> >>)
      [] name = "ZAdd" -> Cmd("zset", name, "k1", << << << ScoreOf(c), ElemOf(c) >> >> >>)

\* framed_read.next() yields a frame that parses to cmd, and the family
\* handler reaches `self.store.write().await`
Receive(c, N) ==
    \E name \in N :
        /\ conns[c].pc = "read"
        /\ Len(conns[c].log) < MaxCmds
        /\ conns' = [conns EXCEPT ![c] = Task("wait", CmdOf(c, name), None, @.log)]
        /\ UNCHANGED << data, now, last, lock >>

\* the write guard is granted and the store method starts on the map
AcquireWrite(c) ==
    /\ conns[c].pc = "wait"
    /\ write_available(lock)
    /\ lock' = lock \cup {c}
    /\ conns' = [conns EXCEPT ![c] = Task("held", @.cur, data, @.log)]
    /\ UNCHANGED << data, now, last >>

\* the store method finishes, the reply is encoded, the guard is dropped
StoreCall(c) ==
    /\ conns[c].pc = "held"
    /\ LET h == FamilyHandler(conns[c].cur, conns[c].seen, now)
       IN  /\ data' = h.data
           /\ conns' = [conns EXCEPT ![c] =
                  Task("send", @.cur, None, Append(@.log, Handling(@.cur, h.res, FALSE)))]
    /\ lock' = lock \ {c}
    /\ UNCHANGED << now, last >>

\* variant: the loop reads the next frame without sending the reply
SendReply_Skipped(c) ==
    /\ conns[c].pc = "send"
    /\ conns' = [conns EXCEPT ![c] = Task("read", None, None, @.log)]
    /\ UNCHANGED << data, now, last, lock >>

\* framed_write.send(write_frame) for an Ok result; an Err result is
\* printed and nothing is sent
SendReply(c) ==
    /\ conns[c].pc = "send"
    /\ LET log == conns[c].log
           n == Len(log)
       IN  conns' = [conns EXCEPT ![c] =
               Task("read", None, None, [log EXCEPT ![n].sent = log[n].res.ok])]
    /\ UNCHANGED << data, now, last, lock >>

NextConc ==
    \E c \in Conns :
        \/ Receive(c, CmdNames)
        \/ AcquireWrite(c)
        \/ StoreCall(c)
        \/ SendReply(c)

SpecConc == InitConns /\ [][NextConc]_vars

---------------------------------------------------------------------------
(* SpecMulti: two connections sending MSET and MGET over two keys and GET  *)
(* (src/src/commands/string.rs). A handler holds the write guard from      *)
(* `self.store.write().await` to its return; its loop over the pairs or    *)
(* keys takes one step per item.                                           *)

MultiKeys == << "k1", "k2" >>
MultiNames == {"MSet", "MGet", "Get"}
\* args: the items of the command and how far the handler's loop has come
\* (the number of pairs set, the values collected)
MultiCmdOf(c, name) ==
    CASE name = "MSet" ->
            Cmd("string", name, "",
                << [i \in 1 .. Len(MultiKeys) |-> << MultiKeys[i], ElemOf(c) >>], 0 >>)
      [] name = "MGet" -> Cmd("string", name, "", << MultiKeys, << >> >>)
      [] name = "Get" -> Cmd("string", name, MultiKeys[2], << >>)

ReceiveMulti(c, N) ==
    \E name \in N :
        /\ conns[c].pc = "read"
        /\ Len(conns[c].log) < MaxCmds
        /\ conns' = [conns EXCEPT ![c] = Task("wait", MultiCmdOf(c, name), None, @.log)]
        /\ UNCHANGED << data, now, last, lock >>

\* variant: the guard is still held when the result goes to the
\* connection loop
Returns_HoldingGuard(c, res) ==
    /\ conns' = [conns EXCEPT ![c] =
           Task("send", @.cur, None, Append(@.log, Handling(@.cur, res, FALSE)))]
    /\ lock' = lock

\* the handler returns res: the guard is dropped, the result goes to the
\* connection loop
Returns(c, res) ==
    /\ conns' = [conns EXCEPT ![c] =
           Task("send", @.cur, None, Append(@.log, Handling(@.cur, res, FALSE)))]
    /\ lock' = lock \ {c}

\* handle_mset: one iteration of `for (key, value) in pairs { store.set }`
MSetStep(c) ==
    /\ conns[c].pc = "held"
    /\ conns[c].cur.name = "MSet"
    /\ LET pairs == conns[c].cur.args[1]
           n == conns[c].cur.args[2]
       IN  /\ n < Len(pairs)
           /\ data' = set(data, now, pairs[n + 1][1], StringValue(pairs[n + 1][2])).data
           /\ conns' = [conns EXCEPT ![c].cur.args[2] = n + 1]
    /\ UNCHANGED << now, last, lock >>

\* handle_mset after the loop: encode_value("OK")
MSetReturn(c) ==
    /\ conns[c].pc = "held"
    /\ conns[c].cur.name = "MSet"
    /\ conns[c].cur.args[2] = Len(conns[c].cur.args[1])
    /\ Returns(c, encode_value(StringValue("OK")))
    /\ UNCHANGED << data, now, last >>

\* handle_mget: one key of `keys.into_iter().map(|key| store.get(&key))`;
\* a key that is absent or not a string gives None
MGetStep(c) ==
    /\ conns[c].pc = "held"
    /\ conns[c].cur.name = "MGet"
    /\ LET keys == conns[c].cur.args[1]
           values == conns[c].cur.args[2]
       IN  /\ Len(values) < Len(keys)
           /\ LET r == get(data, now, keys[Len(values) + 1])
                  v == IF IsSome(r.ret) /\ Unwrap(r.ret).type = "string"
                       THEN Some(Unwrap(r.ret).data) ELSE None
              IN  /\ data' = r.data
                  /\ conns' = [conns EXCEPT ![c].cur.args[2] = Append(values, v)]
    /\ UNCHANGED << now, last, lock >>

\* handle_mget after the map: None becomes the bytes "(nil)", the values
\* are encoded as a list
MGetReturn(c) ==
    /\ conns[c].pc = "held"
    /\ conns[c].cur.name = "MGet"
    /\ LET values == conns[c].cur.args[2]
       IN  /\ Len(values) = Len(conns[c].cur.args[1])
           /\ Returns(c, encode_value(ListValue(
                  [i \in 1 .. Len(values) |->
                      IF IsSome(values[i]) THEN Unwrap(values[i]) ELSE "(nil)"])))
    /\ UNCHANGED << data, now, last >>

\* handle_get: store.get and the encoding of its result
GetReturn(c) ==
    /\ conns[c].pc = "held"
    /\ conns[c].cur.name = "Get"
    /\ LET r == get(data, now, conns[c].cur.key)
       IN  /\ data' = r.data
           /\ Returns(c, IF r.ret = None THEN encode_error(<< "key not found" >>)
                         ELSE encode_value(Unwrap(r.ret)))
    /\ UNCHANGED << now, last >>

NextMulti ==
    \E c \in Conns :
        \/ ReceiveMulti(c, MultiNames)
        \/ AcquireWrite(c)
        \/ MSetStep(c) \/ MSetReturn(c)
        \/ MGetStep(c) \/ MGetReturn(c)
        \/ GetReturn(c)
        \/ SendReply(c)

SpecMulti == InitConns /\ [][NextMulti]_vars

\* the frames connection c1 sends
Frames ==
    {BulkArray(<< "GET", "k1" >>), BulkArray(<< "get", "k1" >>),
     BulkArray(<< "SET", "k1", "a" >>), BulkArray(<< "SET", "k1", "a", "EX", "1" >>),
     BulkArray(<< "GETSET", "k1", "a" >>),
     BulkArray(<< "LPUSH", "k1", "a" >>), BulkArray(<< "LLEN", "k1" >>),
     BulkArray(<< "FOO", "k1" >>),
     BulkArray(<< "GET" >>), BulkArray(<< "SET", "k1", "a", "EX", "abc" >>),
     BulkArray(<< "SET", "k1", "a", "ZZ" >>), BulkArray(<< "GET", InvalidUtf8 >>),
     BulkArray(<< >>)}

\* framed_read.next() yields a frame
ReadFrame(c, F) ==
    \E frame \in F :
        /\ conns[c].pc = "read"
        /\ Len(conns[c].log) < MaxCmds
        /\ conns' = [conns EXCEPT ![c] = Task("frame", frame, None, @.log)]
        /\ UNCHANGED << data, now, last, lock >>

\* Command::from(frame), which unwraps from_frame's result and so panics
\* the task on a parse error, then CmdHandler::handle_cmd on the store
HandleFrame(c) ==
    /\ conns[c].pc = "frame"
    /\ LET parsed == from_frame(conns[c].cur)
           h == CmdHandler_handle_cmd(parsed.val, data, now)
       IN  IF ~parsed.ok
           THEN /\ conns' = [conns EXCEPT ![c] =
                       Task("panicked", None, None,
                            Append(@.log, Handling(@.cur, Err("panicked"), FALSE)))]
                /\ data' = data
           ELSE /\ conns' = [conns EXCEPT ![c] =
                       Task("send", @.cur, None,
                            Append(@.log, Handling(@.cur, h.res, FALSE)))]
                /\ data' = h.data
    /\ UNCHANGED << now, last, lock >>

\* framed_read.next() yields None or an error: the task leaves its loop
Disconnect(c) ==
    /\ conns[c].pc = "read"
    /\ conns' = [conns EXCEPT ![c] = Task("closed", None, None, @.log)]
    /\ UNCHANGED << data, now, last, lock >>

\* the other connection sends well-formed GET and SET only
PlainFrames == {BulkArray(<< "GET", "k1" >>), BulkArray(<< "SET", "k1", "b" >>)}
FramesOf(c) == IF c = "c1" THEN Frames ELSE PlainFrames

NextServer ==
    \E c \in Conns :
        \/ ReadFrame(c, FramesOf(c))
        \/ HandleFrame(c)
        \/ SendReply(c)
        \/ Disconnect(c)

SpecServer == InitConns /\ [][NextServer]_vars

---------------------------------------------------------------------------
(* SpecParse: the family parsers applied to argument vectors: a command    *)
(* name, a key and up to MaxParseArgs further arguments, or the name alone *)

MaxParseArgs == 4
Tokens == {"NX", "EX", "1", "NaN"}
ArgVectors(name) ==
    {<< name >>} \cup
    {<< name, "k1" >> \o rest :
        rest \in UNION {[1 .. n -> Tokens] : n \in 0 .. MaxParseArgs}}

\* the parser called with args returns (or panics with) r
Parsed(name, args, r) ==
    /\ last' = [op |-> "parse", key |-> name, args |-> << args >>, ret |-> r,
                panic |-> Panics(r), pre |-> None, at |-> now]
    /\ UNCHANGED << data, now, conns, lock >>

DoParseSet ==
    \E args \in ArgVectors("SET") :
        /\ Parsed("SET", args, parse_set(args))
DoParseHSet ==
    \E args \in ArgVectors("HSET") :
        /\ Parsed("HSET", args, parse_hset(args))
DoParseZAdd ==
    \E args \in ArgVectors("ZADD") :
        /\ Parsed("ZADD", args, parse_zadd(args))

NextParse == DoParseSet \/ DoParseHSet \/ DoParseZAdd

SpecParse == Init /\ [][NextParse]_vars

(* SpecHReply: HMGET at the store and at its handler, on a hash whose      *)
(* values are drawn from ReplyValues                                       *)

ReplyValues == {"a", "(nil)"}

DoHandleHMGet(k, A) ==
    \E fs \in A :
        /\ LET h == handle_hmget(data, now, k, fs)
           IN  Call("handle_hmget", k, << fs >>,
                    [data |-> h.data, ret |-> h.res, panic |-> FALSE])

NextHReply ==
    \E k \in Keys :
        \/ DoHSet(k, Args1(Elems \X ReplyValues)) \/ DoHDel(k, Args1(Elems))
        \/ DoHMGet(k, Args(Elems)) \/ DoHandleHMGet(k, Args(Elems))
        \/ DoDelete(k)

SpecHReply == Init /\ [][NextHReply]_vars

(* SpecZReply: ZRANGE at its handler, on a sorted set that ZADD and ZREM   *)
(* change                                                                  *)

DoHandleZRange(k, I) ==
    \E start \in I, stop \in I, ws \in BOOLEAN :
      \E checks \in Builds(stop) :
        /\ Call("handle_zrange", k, << start, stop, ws, checks >>,
             handle_zrange(data, now, k, start, stop, ws, checks))

NextZReply ==
    \E k \in Keys :
        \/ DoZAdd(k, Args(Scores \X Elems)) \/ DoZRem(k, Args1(Elems))
        \/ DoHandleZRange(k, (-MaxScore) .. MaxScore)
        \/ DoDelete(k)

SpecZReply == Init /\ [][NextZReply]_vars

(* SpecPop: the parsers of LPOP and RPOP on every argument vector          *)

DoParseLPop ==
    \E args \in ArgVectors("LPOP") :
        /\ Parsed("LPOP", args, parse_lpop(args))
DoParseRPop ==
    \E args \in ArgVectors("RPOP") :
        /\ Parsed("RPOP", args, parse_rpop(args))

NextPop == DoParseLPop \/ DoParseRPop

SpecPop == Init /\ [][NextPop]_vars


---------------------------------------------------------------------------
(* Vocabulary of the properties *)

ReadOps ==
    {"get", "exists", "ttl", "key_type", "llen", "lrange", "lpop", "rpop",
     "smembers", "scard", "s_ismember", "hget", "hmget", "hexists", "hlen",
     "hkeys", "hvals", "hgetall", "zscore", "zcard", "zrange"}

\* what a read answers for a key that is not in the store
AbsentAnswer(op) ==
    IF op \in {"exists", "hexists"} THEN FALSE
    ELSE IF op \in {"hlen", "zcard"} THEN 0
    ELSE None

\* the entry the last call found under its key
HadEntry == IsSome(last.pre)
PreEntry == Unwrap(last.pre)
\* ... had a deadline that had passed when the call was made
DeadlinePassed(e, t) == IsSome(e.expires_at) /\ t > Unwrap(e.expires_at)
PreExpired == HadEntry /\ DeadlinePassed(PreEntry, last.at)
PreLive == HadEntry /\ ~DeadlinePassed(PreEntry, last.at)

\* the type each create-if-absent write works on
CreateOps == {"lpush", "rpush", "sadd", "hset", "hmset", "zadd"}
TypeOfOp(op) ==
    IF op \in {"lpush", "rpush"} THEN "list"
    ELSE IF op = "sadd" THEN "set"
    ELSE IF op \in {"hset", "hmset"} THEN "hash"
    ELSE "zset"

---------------------------------------------------------------------------
(* C1: lazy expiration. A read of a key whose deadline has passed answers  *)
(* what it answers for an absent key, does not panic, and leaves the key   *)
(* out of the store; a read of an absent key gives that same answer.       *)
C1_LazyExpiration ==
    last.op \in ReadOps =>
        /\ PreExpired =>
               /\ ~last.panic
               /\ last.ret = AbsentAnswer(last.op)
               /\ last.key \notin DOMAIN data
        /\ ~HadEntry =>
               /\ ~last.panic
               /\ last.ret = AbsentAnswer(last.op)
               /\ last.key \notin DOMAIN data

\* a read has met an expired entry and evicted it
C1_Witness ==
    /\ last.op \in ReadOps
    /\ PreExpired
    /\ last.key \notin DOMAIN data

(* C2: a create-if-absent write on a live key of another type is rejected  *)
(* (it reports no length or count) and leaves the entry as it was.         *)
C2_TypeMismatchRejected ==
    (last.op \in CreateOps /\ PreLive /\ PreEntry.value.type # TypeOfOp(last.op)) =>
        /\ last.key \in DOMAIN data
        /\ data[last.key] = PreEntry
        /\ last.ret \notin Nat

(* C3: dual-index invariant. In every sorted set the score-ordered map and *)
(* the member-to-score map describe the same pairs: each member of         *)
(* member_scores sits in the slot of its score, each slot holds a member   *)
(* whose score it is, and both maps have the same size.                    *)
DualIndex(z) ==
    /\ \A m \in DOMAIN z.member_scores :
           /\ z.member_scores[m] \in DOMAIN z.members
           /\ z.members[z.member_scores[m]] = m
    /\ \A sc \in DOMAIN z.members :
           /\ z.members[sc] \in DOMAIN z.member_scores
           /\ z.member_scores[z.members[sc]] = sc
    /\ Cardinality(DOMAIN z.members) = Cardinality(DOMAIN z.member_scores)

C3_DualIndex ==
    \A k \in DOMAIN data : data[k].value.type = "zset" => DualIndex(data[k].value)

(* C4: zadd returns the number of members newly added, and afterwards      *)
(* zscore of every member of the call is the score the call gave it        *)
(* (calls that name each member once).                                     *)
MembersOf(ms) == {ms[i][2] : i \in 1 .. Len(ms)}
NamesEachOnce(ms) == \A i, j \in 1 .. Len(ms) : ms[i][2] = ms[j][2] => i = j
PreMembers ==
    IF PreLive /\ PreEntry.value.type = "zset"
    THEN DOMAIN PreEntry.value.member_scores ELSE {}

C4_ZAddUpdatesScore ==
    (last.op = "zadd" /\ NamesEachOnce(last.args[1])) =>
        /\ last.ret = Cardinality(MembersOf(last.args[1]) \ PreMembers)
        /\ \A i \in 1 .. Len(last.args[1]) :
               zscore(data, last.at, last.key, last.args[1][i][2]).ret
                   = Some(last.args[1][i][1])

(* C5: right after set_with_expiration(k, v, t) with t > 0 the key exists  *)
(* and its deadline is the time of the call plus t; whenever a key's       *)
(* deadline has passed, exists answers false, get answers None, and either *)
(* call removes the entry.                                                 *)
C5_ExpiresAfterTtl ==
    /\ (last.op = "set_with_expiration" /\ last.args[2] > 0) =>
           /\ exists(data, last.at, last.key).ret = TRUE
           /\ data[last.key].expires_at = Some(last.at + last.args[2])
           /\ data[last.key].value = StringValue(last.args[1])
    /\ \A k \in DOMAIN data :
           DeadlinePassed(data[k], now) =>
               /\ exists(data, now, k).ret = FALSE
               /\ k \notin DOMAIN exists(data, now, k).data
               /\ get(data, now, k).ret = None
               /\ k \notin DOMAIN get(data, now, k).data
    /\ (last.op \in {"exists", "get"} /\ PreExpired) =>
           /\ last.ret = AbsentAnswer(last.op)
           /\ last.key \notin DOMAIN data

\* a key stored by set_with_expiration with t > 0 has outlived its deadline:
\* exists now answers false and evicts it
C5_Witness ==
    /\ last.op = "set_with_expiration"
    /\ last.args[2] > 0
    /\ now > last.at + last.args[2]
    /\ last.key \in DOMAIN data
    /\ exists(data, now, last.key).ret = FALSE
    /\ last.key \notin DOMAIN exists(data, now, last.key).data

---------------------------------------------------------------------------
(* C9: for a list of length n and any start and stop, lrange returns the   *)
(* elements at positions start..stop inclusive, a negative index i read as *)
(* n+i, start clamped to at least 0 and stop to at most n-1; an empty or   *)
(* inverted range gives the empty sequence.                                *)
Resolve(n, i) == IF i < 0 THEN n + i ELSE i
InclusiveWindow(es, start, stop) ==
    LET n == Len(es)
        lo == Max(Resolve(n, start), 0)
        hi == Min(Resolve(n, stop), n - 1)
    IN  IF lo > hi THEN << >> ELSE SubSeq(es, lo + 1, hi + 1)

C9_LRangeWindow ==
    (last.op = "lrange" /\ PreLive /\ PreEntry.value.type = "list") =>
        /\ ~last.panic
        /\ last.ret = Some(InclusiveWindow(PreEntry.value.elements,
                                           last.args[1], last.args[2]))

(* C10: after lpush(key, [v1..vn]) the list reads vn, ..., v1 followed by  *)
(* the previous elements; after rpush it reads the previous elements       *)
(* followed by v1, ..., vn; both return the new length.                    *)
PreElements ==
    IF PreLive /\ PreEntry.value.type = "list" THEN PreEntry.value.elements ELSE << >>

C10_PushOrder ==
    /\ last.op = "lpush" =>
           /\ data[last.key].value = ListValue(Reverse(last.args[1]) \o PreElements)
           /\ last.ret = Len(last.args[1]) + Len(PreElements)
    /\ last.op = "rpush" =>
           /\ data[last.key].value = ListValue(PreElements \o last.args[1])
           /\ last.ret = Len(last.args[1]) + Len(PreElements)

---------------------------------------------------------------------------
(* C6: for any interleaving of the commands of concurrent connections, the *)
(* store and every reply are those of some sequential execution of the     *)
(* same commands, each connection's commands in the order it sent them: no *)
(* update is lost.                                                         *)
RECURSIVE Serializable(_, _)
Serializable(d, logs) ==
    IF \A c \in Conns : logs[c] = << >> THEN d = data
    ELSE \E c \in Conns :
            /\ logs[c] # << >>
            /\ LET h == FamilyHandler(Head(logs[c]).in, d, now)
               IN  /\ h.res = Head(logs[c]).res
                   /\ Serializable(h.data, [logs EXCEPT ![c] = Tail(@)])

C6_Linearizable == Serializable(EmptyMap, [c \in Conns |-> conns[c].log])

\* two LPUSH on one key were in flight together (neither reply sent yet)
\* and both took effect
C6_Witness ==
    /\ \A c \in Conns : conns[c].pc = "send" /\ conns[c].cur.name = "LPush"
    /\ "k1" \in DOMAIN data
    /\ data["k1"].value.type = "list"
    /\ SeqToSet(data["k1"].value.elements) = {ElemOf(c) : c \in Conns}
    /\ {conns[c].log[Len(conns[c].log)].res.val.val : c \in Conns} = {1, 2}

(* C7: every frame a connection has read has got exactly one reply by the  *)
(* time the connection's next frame is read, and a frame whose command     *)
(* name is not recognised or not implemented got an error reply naming the *)
(* command.                                                                *)
FrameName(frame) == to_uppercase(frame.val[1].val)
Implemented == {"GET", "SET"}

C7_OneReplyPerFrame ==
    \A c \in Conns :
        conns[c].pc \in {"read", "closed"} =>
            \A i \in 1 .. Len(conns[c].log) :
                LET h == conns[c].log[i]
                IN  /\ h.res.ok
                    /\ h.sent
                    /\ (from_frame(h.in).ok /\ FrameName(h.in) \notin Implemented) =>
                           /\ h.res.val.kind = "error"
                           /\ \E j \in 1 .. Len(h.res.val.val) :
                                  h.res.val.val[j] = FrameName(h.in)

(* C8: a frame that fails to parse gets an error reply and the connection  *)
(* stays open: its task never ends by a panic.                             *)
C8_ParseErrorKeepsConnection ==
    \A c \in Conns :
        /\ conns[c].pc # "panicked"
        /\ \A i \in 1 .. Len(conns[c].log) :
               LET h == conns[c].log[i]
               IN  (~from_frame(h.in).ok /\ (i < Len(conns[c].log) \/ conns[c].pc = "read")) =>
                       /\ h.res.ok
                       /\ h.res.val.kind = "error"
                       /\ h.sent

---------------------------------------------------------------------------
(* C11: lpop / rpop(key, count) on a key holding a non-empty list removes  *)
(* min(count, length) elements from the head / tail and returns them in    *)
(* the order popped; it returns None only when the key is absent, expired  *)
(* or holds an empty list.                                                 *)
RECURSIVE TakeHead(_, _)
TakeHead(es, n) == IF n = 0 THEN << >> ELSE << Head(es) >> \o TakeHead(Tail(es), n - 1)

C11_PopCount ==
    (last.op \in {"lpop", "rpop"} /\ PreLive /\ PreEntry.value.type = "list") =>
        LET es == PreEntry.value.elements
            n == Min(last.args[1], Len(es))
            popped == IF last.op = "lpop" THEN TakeHead(es, n)
                      ELSE TakeHead(Reverse(es), n)
            rest == IF last.op = "lpop" THEN SubSeq(es, n + 1, Len(es))
                    ELSE SubSeq(es, 1, Len(es) - n)
        IN  /\ data[last.key].value = ListValue(rest)
            /\ last.ret = IF es = << >> THEN None ELSE Some(popped)

(* C12: sadd returns the number of distinct members of the call that were *)
(* not in the set before it, and adds them; the same sadd made again       *)
(* returns 0 and leaves the store as it is; scard is the number of         *)
(* distinct members in the set.                                            *)
\* the members the last call found in the set under its key
PreSetMembers ==
    IF PreLive /\ PreEntry.value.type = "set" THEN PreEntry.value.members ELSE {}

C12_SAddCountsNew ==
    last.op = "sadd" =>
        LET named == SeqToSet(last.args[1])
            again == sadd(data, last.at, last.key, last.args[1])
        IN  /\ last.ret = Cardinality(named \ PreSetMembers)
            /\ smembers(data, last.at, last.key).ret = Some(PreSetMembers \cup named)
            /\ scard(data, last.at, last.key).ret = Some(Cardinality(PreSetMembers \cup named))
            /\ again.ret = 0
            /\ again.data = data

\* a sadd naming one new member twice and nothing else new, on a set that
\* had a member already
C12_Witness ==
    /\ last.op = "sadd"
    /\ PreSetMembers # {}
    /\ Len(last.args[1]) > Cardinality(SeqToSet(last.args[1]))
    /\ last.ret = 1

(* C13: srem returns the number of distinct named members that were in the *)
(* set, and afterwards smembers is the previous set minus the named        *)
(* members; on the store, SADD myset hello world, SADD myset hello, SCARD, *)
(* SMEMBERS, SREM myset hello, SMEMBERS give 2, 0, 2, {hello, world}, 1,   *)
(* {world}.                                                                *)
C13_Scenario ==
    LET k == "myset"
        c1 == sadd(EmptyMap, 0, k, << "hello", "world" >>)
        c2 == sadd(c1.data, 0, k, << "hello" >>)
        c3 == scard(c2.data, 0, k)
        c4 == smembers(c3.data, 0, k)
        c5 == srem(c4.data, 0, k, << "hello" >>)
        c6 == smembers(c5.data, 0, k)
    IN  << c1.ret, c2.ret, c3.ret, c4.ret, c5.ret, c6.ret >>

C13_SRemCountsRemoved ==
    /\ C13_Scenario = << 2, 0, Some(2), Some({"hello", "world"}), 1, Some({"world"}) >>
    /\ last.op = "srem" =>
        LET named == SeqToSet(last.args[1])
        IN  /\ last.ret = Cardinality(named \cap PreSetMembers)
            /\ PreLive /\ PreEntry.value.type = "set" =>
                   smembers(data, last.at, last.key).ret = Some(PreSetMembers \ named)
            /\ ~PreLive => smembers(data, last.at, last.key).ret = None

\* a srem naming one member of a two-member set twice
C13_Witness ==
    /\ last.op = "srem"
    /\ Cardinality(PreSetMembers) = 2
    /\ Len(last.args[1]) > Cardinality(SeqToSet(last.args[1]))
    /\ last.ret = 1
    /\ Cardinality(data[last.key].value.members) = 1

(* C14: hset returns the number of distinct fields of the call that did    *)
(* not exist before it (an updated field is not counted, a repeated field  *)
(* at most once); afterwards hget of each field of the call returns the    *)
(* last value the call gave it and the other fields are as before; hmset   *)
(* has the same effect and return.                                         *)
\* the fields the last call found in the hash under its key
PreFields ==
    IF PreLive /\ PreEntry.value.type = "hash" THEN PreEntry.value.fields ELSE EmptyMap

FieldsOf(pairs) == {pairs[i][1] : i \in 1 .. Len(pairs)}
\* the value of the last pair of pairs that names field
LastValue(pairs, field) ==
    LET at == CHOOSE i \in 1 .. Len(pairs) :
                  /\ pairs[i][1] = field
                  /\ \A j \in (i + 1) .. Len(pairs) : pairs[j][1] # field
    IN  pairs[at][2]

C14_HSetCountsNew ==
    last.op \in {"hset", "hmset"} =>
        LET pairs == last.args[1]
        IN  /\ last.ret = Cardinality(FieldsOf(pairs) \ DOMAIN PreFields)
            /\ \A f \in FieldsOf(pairs) :
                   hget(data, last.at, last.key, f).ret = Some(LastValue(pairs, f))
            /\ \A f \in Elems \ FieldsOf(pairs) :
                   hget(data, last.at, last.key, f).ret = FieldGet(PreFields, f)
            /\ hmset(data, last.at, last.key, pairs) = hset(data, last.at, last.key, pairs)

\* a call that gives one new field two values on a hash that had another
\* field: it counts 1 and the second value is stored
C14_Witness ==
    /\ last.op \in {"hset", "hmset"}
    /\ DOMAIN PreFields # {}
    /\ Len(last.args[1]) = 2
    /\ last.args[1][1][1] = last.args[1][2][1]
    /\ last.args[1][1][2] # last.args[1][2][2]
    /\ last.args[1][1][1] \notin DOMAIN PreFields
    /\ last.ret = 1
    /\ data[last.key].value.fields[last.args[1][1][1]] = last.args[1][2][2]

(* C15: after expire(k, t) has returned true the key carries the deadline  *)
(* now + t, and every ttl(k) made while the key has not yet expired        *)
(* returns a remaining time r with 0 < r <= t (r is what is left to the    *)
(* deadline); a ttl made once the key has expired answers as for an absent *)
(* key.                                                                    *)
C15_TtlAfterExpire ==
    /\ (last.op = "expire" /\ last.ret = TRUE) =>
           data[last.key].expires_at = Some(last.at + last.args[1])
    /\ (last.op = "ttl" /\ HadEntry /\ IsSome(PreEntry.expires_at)) =>
           LET deadline == Unwrap(PreEntry.expires_at)
           IN  IF PreLive
               THEN /\ IsSome(last.ret)
                    /\ 0 < Unwrap(last.ret)
                    /\ Unwrap(last.ret) = deadline - last.at
               ELSE last.ret = None

(* C16: ttl reports four statuses that can be told apart by its result:    *)
(* the key has a TTL (with the remaining time), the key exists with no     *)
(* TTL, the key has expired and was just evicted, the key is absent.       *)
\* the status of the key the last call was made on
KeyStatus ==
    IF ~HadEntry THEN "absent"
    ELSE IF PreExpired THEN "expired"
    ELSE IF IsSome(PreEntry.expires_at) THEN "has ttl"
    ELSE "no ttl"

C16_TtlStatuses ==
    last.op = "ttl" =>
        LET absent == ttl(EmptyMap, last.at, last.key).ret
            \* the same entry with a deadline that has passed
            stale == [PreEntry EXCEPT !.expires_at = Some(last.at - 1)]
            expired == ttl(MapInsert(EmptyMap, last.key, stale), last.at, last.key).ret
        IN  /\ KeyStatus = "has ttl" => IsSome(last.ret) /\ last.ret # absent
            /\ KeyStatus = "no ttl" => last.ret # absent /\ last.ret # expired
            /\ KeyStatus = "expired" => last.ret # absent

(* C17: after set(key, value) the key holds exactly that value and has no  *)
(* deadline, whatever value, type or deadline it had before: it is read    *)
(* back at any later time and ttl reports no remaining time.               *)
C17_SetOverwrites ==
    last.op = "set" =>
        /\ last.ret = TRUE
        /\ data[last.key].value = StringValue(last.args[1])
        /\ data[last.key].expires_at = None
        /\ \A t \in last.at .. (MaxTime + 1) :
               /\ get(data, t, last.key).ret = Some(StringValue(last.args[1]))
               /\ ttl(data, t, last.key).ret = None

\* a set over a key of another type that had a deadline; that deadline has
\* since passed and the key is still there
C17_Witness ==
    /\ last.op = "set"
    /\ HadEntry
    /\ PreEntry.value.type # "string"
    /\ IsSome(PreEntry.expires_at)
    /\ now > Unwrap(PreEntry.expires_at)
    /\ exists(data, now, last.key).ret = TRUE

(* C18: expire(key, ttl) returns true and sets the key's deadline to       *)
(* now + ttl, replacing any earlier deadline and leaving the value as it   *)
(* was, exactly when the key exists and has not expired; otherwise it      *)
(* returns false, the key is absent afterwards and no deadline is created. *)
C18_ExpireSetsDeadline ==
    last.op = "expire" =>
        IF PreLive
        THEN /\ last.ret = TRUE
             /\ data[last.key].value = PreEntry.value
             /\ data[last.key].expires_at = Some(last.at + last.args[1])
        ELSE /\ last.ret = FALSE
             /\ last.key \notin DOMAIN data

\* an expire that has replaced an earlier deadline by a later one
C18_Witness ==
    /\ last.op = "expire"
    /\ last.ret = TRUE
    /\ IsSome(PreEntry.expires_at)
    /\ Unwrap(PreEntry.expires_at) < last.at + last.args[1]
    /\ data[last.key].expires_at = Some(last.at + last.args[1])

(* C19: SET k v is answered OK and a GET k that follows returns v; a       *)
(* delete of a key that is present reports it removed, after which GET k   *)
(* answers not-found and exists(k) is false; a delete of an absent key     *)
(* reports nothing removed and changes nothing.                            *)
GetCmd(k) == Cmd("string", "Get", k, << >>)
SetCmd(k, v) == Cmd("string", "Set", k, << v, SetOptions_default >>)

C19_SetGetDelete ==
    /\ \A k \in Keys :
         \* SET then GET through the string handler, from any store
         /\ \A v \in Elems :
              LET s == handle_string_value(SetCmd(k, v), data, now)
                  g == handle_string_value(GetCmd(k), s.data, now)
              IN  /\ s.res = Ok(BulkString("OK"))
                  /\ g.res = Ok(BulkString(v))
                  /\ g.data[k].value = StringValue(v)
         /\ k \notin DOMAIN data => delete(data, now, k) = Res(data, FALSE)
    /\ last.op = "delete" =>
         /\ last.ret = HadEntry
         /\ last.key \notin DOMAIN data
         /\ exists(data, last.at, last.key).ret = FALSE
         /\ LET g == handle_string_value(GetCmd(last.key), data, last.at)
            IN  /\ g.res.ok
                /\ g.res.val.kind = "error"
                /\ g.res.val.val = << "key not found" >>
                /\ g.data = data

\* a delete has removed a string a set had stored, the key is gone
C19_Witness ==
    /\ last.op = "delete"
    /\ last.ret = TRUE
    /\ PreLive
    /\ PreEntry.value = StringValue("a")
    /\ get(data, now, last.key).ret = None

(* C20: for every per-type read, the outcome for a live key of another     *)
(* type differs from the outcome for an absent key (for the hash reads: an *)
(* error rather than the empty, zero or nil answer of an absent key).      *)
TypedReadOps ==
    {"llen", "lrange", "smembers", "scard", "s_ismember", "hget", "hmget",
     "hexists", "hlen", "hkeys", "hvals", "hgetall", "zscore", "zcard", "zrange"}
TypeOfRead(op) ==
    IF op \in {"llen", "lrange"} THEN "list"
    ELSE IF op \in {"smembers", "scard", "s_ismember"} THEN "set"
    ELSE IF op \in {"zscore", "zcard", "zrange"} THEN "zset"
    ELSE "hash"

C20_WrongTypeDistinguishable ==
    last.op \in TypedReadOps =>
        /\ ~HadEntry => last.ret = AbsentAnswer(last.op) /\ ~last.panic
        /\ (PreLive /\ PreEntry.value.type # TypeOfRead(last.op)) =>
               \/ last.panic
               \/ last.ret # AbsentAnswer(last.op)

---------------------------------------------------------------------------
(* C21: zrange over the whole set (start 0, stop -1) returns every member  *)
(* of the sorted set exactly once, in ascending score order, members of    *)
(* equal score all present and ordered among themselves by member bytes.   *)
\* the byte order of the member strings of the model
ByteRank(m) == IF m = "a" THEN 1 ELSE 2

C21_ZRangeOrder ==
    (last.op = "zrange" /\ PreLive /\ PreEntry.value.type = "zset"
         /\ last.args[1] = 0 /\ last.args[2] = -1) =>
        LET scores == PreEntry.value.member_scores
            r == Unwrap(last.ret)
        IN  /\ ~last.panic
            /\ IsSome(last.ret)
            /\ Len(r) = Cardinality(DOMAIN scores)
            /\ {r[i][1] : i \in 1 .. Len(r)} = DOMAIN scores
            /\ \A i, j \in 1 .. Len(r) :
                   i < j =>
                       \/ scores[r[i][1]] < scores[r[j][1]]
                       \/ /\ scores[r[i][1]] = scores[r[j][1]]
                          /\ ByteRank(r[i][1]) < ByteRank(r[j][1])

(* C22: zrem removes exactly the named members that were present and       *)
(* returns their count; every member not named keeps its score, still      *)
(* appears in zrange if it appeared before, and zcard falls by the count   *)
(* returned.                                                               *)
\* the members zrange over the whole of zset z shows
Ranged(z) == {BTreeIter(z.members)[i][2] : i \in 1 .. Cardinality(DOMAIN z.members)}

C22_ZRemFrame ==
    (last.op = "zrem" /\ PreLive /\ PreEntry.value.type = "zset") =>
        LET named == SeqToSet(last.args[1])
            pre == PreEntry.value
            post == data[last.key].value
        IN  /\ last.ret = Cardinality(named \cap PreMembers)
            /\ DOMAIN post.member_scores = PreMembers \ named
            /\ \A m \in PreMembers \ named :
                   /\ zscore(data, last.at, last.key, m).ret = Some(pre.member_scores[m])
                   /\ m \in Ranged(pre) => m \in Ranged(post)
            /\ zcard(data, last.at, last.key).ret
                   = zcard_hit(pre) - last.ret

(* C23: for every start and stop, the extremes of i64 included, lrange and *)
(* zrange on a list or sorted set return a (possibly empty) sequence and   *)
(* do not panic, whether from arithmetic overflow or from slicing out of   *)
(* bounds.                                                                 *)
C23_RangeNeverPanics ==
    (last.op \in {"lrange", "zrange"} /\ PreLive
         /\ PreEntry.value.type \in {"list", "zset"}) =>
        /\ ~last.panic
        /\ IsSome(last.ret)

---------------------------------------------------------------------------
(* C24: each family parser is total: for every argument vector it returns  *)
(* a command or a parse error and never panics by indexing past the end of *)
(* the arguments, ZADD vectors whose first argument after the key is NX or *)
(* XX included.                                                            *)
C24_ParsersTotal ==
    last.op = "parse" =>
        /\ ~last.panic
        /\ last.ret.ok \in BOOLEAN

(* C30: a ZADD whose score argument parses to NaN is rejected with a parse *)
(* error: no command the parser returns carries a NaN score.               *)
C30_NaNRejected ==
    (last.op = "parse" /\ last.key = "ZADD" /\ ~last.panic /\ last.ret.ok) =>
        LET pairs == last.ret.val.args[2]
        IN  \A i \in 1 .. Len(pairs) : ~pairs[i][1].nan

---------------------------------------------------------------------------
(* C25: MSET is atomic with respect to other connections: every MGET reply *)
(* shows, for the keys one MSET call writes, either none or all of that    *)
(* call's values (each call writes one value to both keys, so the two      *)
(* items of a reply are equal), and so does the store whenever no handler  *)
(* holds the guard.                                                        *)
C25_MSetAtomic ==
    /\ \A c \in Conns :
           \A i \in 1 .. Len(conns[c].log) :
               LET h == conns[c].log[i]
               IN  h.in.name = "MGet" =>
                       /\ h.res.ok
                       /\ h.res.val.val[1] = h.res.val.val[2]
    /\ lock = {} =>
           \/ DOMAIN data = {}
           \/ /\ DOMAIN data = SeqToSet(MultiKeys)
              /\ data[MultiKeys[1]].value = data[MultiKeys[2]].value

\* the MGET of one connection has read both values of the other's MSET,
\* whose reply is not sent yet
C25_Witness ==
    \E c, o \in Conns :
        /\ conns[c].pc = "send"
        /\ conns[c].cur.name = "MSet"
        /\ conns[o].log # << >>
        /\ LET h == conns[o].log[Len(conns[o].log)]
           IN  /\ h.in.name = "MGet"
               /\ h.res = Ok(BulkArray(<< ElemOf(c), ElemOf(c) >>))

HandlerStep(c) ==
    MSetStep(c) \/ MSetReturn(c) \/ MGetStep(c) \/ MGetReturn(c) \/ GetReturn(c)

C27_GuardNotHeldAcrossSend ==
    \A c \in Conns :
        /\ c \in lock => conns[c].pc = "held" /\ ENABLED HandlerStep(c)
        /\ conns[c].pc \in {"read", "wait", "send"} => c \notin lock

\* one connection's reply is still to be written while the other holds
\* the guard and runs its command
C27_Witness ==
    \E c, o \in Conns :
        /\ conns[c].pc = "send"
        /\ ~conns[c].log[Len(conns[c].log)].sent
        /\ o \in lock
        /\ conns[o].pc = "held"

---------------------------------------------------------------------------
(* C28: every store operation on a key k, whether it succeeds, fails,      *)
(* meets another type or evicts an expired entry, leaves the entry of      *)
(* every other key (its value and its deadline) as it was.                 *)
\* in a step, last' is the call the step makes (or the earlier call, when
\* only time passes)
OtherKeysUnchanged ==
    \A k \in TwoKeys \ {last'.key} :
        /\ k \in DOMAIN data' <=> k \in DOMAIN data
        /\ k \in DOMAIN data =>
               /\ data'[k].value = data[k].value
               /\ data'[k].expires_at = data[k].expires_at

C28_OtherKeysUntouched == [][OtherKeysUnchanged]_vars

\* a call on one key has evicted its expired entry, or has replaced a
\* value of another type, while the other key holds an entry with a
\* deadline
C28_Witness ==
    /\ HadEntry
    /\ \/ PreExpired /\ last.key \notin DOMAIN data
       \/ last.op = "lpush" /\ PreLive /\ PreEntry.value.type # "list"
    /\ \E k \in DOMAIN data : k # last.key /\ IsSome(data[k].expires_at)

---------------------------------------------------------------------------
(* C29: hmget returns one entry per requested field in request order, each *)
(* either the field's value or absent; in the HMGET reply the item of an   *)
(* absent field differs from the item of a present field, whatever value   *)
(* that field holds.                                                       *)
C29_HMGetPresence ==
    (last.op \in {"hmget", "handle_hmget"} /\ PreLive /\ PreEntry.value.type = "hash") =>
        LET fields == last.args[1]
            stored == PreEntry.value.fields
        IN  IF last.op = "hmget"
            THEN /\ IsSome(last.ret)
                 /\ Len(Unwrap(last.ret)) = Len(fields)
                 /\ \A i \in 1 .. Len(fields) :
                        Unwrap(last.ret)[i] = FieldGet(stored, fields[i])
            ELSE /\ last.ret.ok
                 /\ last.ret.val.kind = "array"
                 /\ Len(last.ret.val.val) = Len(fields)
                 /\ \A i, j \in 1 .. Len(fields) :
                        (fields[i] \in DOMAIN stored /\ fields[j] \notin DOMAIN stored) =>
                            last.ret.val.val[i] # last.ret.val.val[j]

---------------------------------------------------------------------------
(* C31: LPOP key count and RPOP key count, three arguments with count a    *)
(* number, parse to LPop / RPop carrying that key and count = Some(count). *)
C31_PopWithCount ==
    (/\ last.op = "parse" /\ last.key \in {"LPOP", "RPOP"}
     /\ Len(last.args[1]) = 3
     /\ parse_u64(last.args[1][3]).ok) =>
        /\ last.ret.ok
        /\ last.ret.val.name = (IF last.key = "LPOP" THEN "LPop" ELSE "RPop")
        /\ last.ret.val.key = last.args[1][2]
        /\ last.ret.val.args = << Some(parse_u64(last.args[1][3]).val) >>

(* C32: when lpush, rpush, sadd, hset or zadd replaces an existing         *)
(* unexpired value of another type, the entry it leaves is fresh: it       *)
(* carries no expiration deadline of the entry it replaced.                *)
C32_ReplacedEntryFresh ==
    (/\ last.op \in {"lpush", "rpush", "sadd", "hset", "zadd"}
     /\ ~last.panic
     /\ PreLive
     /\ PreEntry.value.type # TypeOfOp(last.op)) =>
        /\ last.key \in DOMAIN data
        /\ data[last.key].value.type = TypeOfOp(last.op)
        /\ data[last.key].expires_at = None

\* the create-if-absent write named op, applied to store d at time t
CreateWrite(op, d, t, key, values) ==
    CASE op = "lpush" -> lpush(d, t, key, values)
      [] op = "rpush" -> rpush(d, t, key, values)
      [] op = "sadd" -> sadd(d, t, key, values)
      [] op = "hset" -> hset(d, t, key, values)
      [] op = "zadd" -> zadd(d, t, key, values)

(* C33: lpush, rpush, sadd, hset and zadd on a key whose deadline has      *)
(* passed do what they do on an absent key: the store they leave and the   *)
(* length or count they return are those of the same call on the store     *)
(* without that key, and the new entry has no expiration deadline.         *)
C33_ExpiredAsAbsent ==
    (/\ last.op \in {"lpush", "rpush", "sadd", "hset", "zadd"}
     /\ ~last.panic
     /\ PreExpired) =>
        LET fresh == CreateWrite(last.op, EmptyMap, last.at, last.key, last.args[1])
        IN  /\ data = fresh.data
            /\ last.ret = fresh.ret
            /\ data[last.key].expires_at = None

\* an expired container of the call's own type, holding values, was replaced
C33_Witness ==
    /\ last.op \in {"lpush", "rpush", "sadd", "hset", "zadd"}
    /\ PreExpired
    /\ PreEntry.value.type = TypeOfOp(last.op)
    /\ PreEntry.value # data[last.key].value
    /\ last.ret = 1

\* the store after a full-scan cleanup at time t
Swept(d, t) == cleanup_expired(d, t).data

\* two outcomes of one call give the same result and leave stores that a
\* cleanup makes equal
SameOutcome(r1, r2, t) ==
    /\ r1.panic = r2.panic
    /\ r1.ret = r2.ret
    /\ Swept(r1.data, t) = Swept(r2.data, t)

\* every store operation on key, made at time t, has the same outcome on d1
\* and on d2
SameResults(d1, d2, t, key) ==
    /\ SameOutcome(get(d1, t, key), get(d2, t, key), t)
    /\ SameOutcome(exists(d1, t, key), exists(d2, t, key), t)
    /\ SameOutcome(delete(d1, t, key), delete(d2, t, key), t)
    /\ SameOutcome(ttl(d1, t, key), ttl(d2, t, key), t)
    /\ SameOutcome(key_type(d1, t, key), key_type(d2, t, key), t)
    /\ SameOutcome(persist(d1, t, key), persist(d2, t, key), t)
    /\ \A dur \in TTLs :
        SameOutcome(expire(d1, t, key, dur), expire(d2, t, key, dur), t)
    /\ SameOutcome(llen(d1, t, key), llen(d2, t, key), t)
    /\ SameOutcome(smembers(d1, t, key), smembers(d2, t, key), t)
    /\ SameOutcome(hgetall(d1, t, key), hgetall(d2, t, key), t)
    /\ SameOutcome(zcard(d1, t, key), zcard(d2, t, key), t)
    /\ SameOutcome(lpop(d1, t, key, 1), lpop(d2, t, key, 1), t)
    /\ \A v \in OneElem :
        /\ SameOutcome(set(d1, t, key, StringValue(v)),
                       set(d2, t, key, StringValue(v)), t)
        /\ SameOutcome(srem(d1, t, key, << v >>), srem(d2, t, key, << v >>), t)
        /\ SameOutcome(hdel(d1, t, key, << v >>), hdel(d2, t, key, << v >>), t)
        /\ SameOutcome(zrem(d1, t, key, << v >>), zrem(d2, t, key, << v >>), t)
        /\ \A op \in {"lpush", "rpush", "sadd"} :
            SameOutcome(CreateWrite(op, d1, t, key, << v >>),
                        CreateWrite(op, d2, t, key, << v >>), t)

(* C34: cleanup_expired removes exactly the entries whose deadline has     *)
(* passed, returns their number and leaves every other entry unchanged;    *)
(* and interleaving it changes no result: in every state each store        *)
(* operation returns the same result on the store and on the store after a *)
(* cleanup, and leaves stores that differ only in entries a cleanup        *)
(* removes.                                                                *)
C34_CleanupSameAsLazy ==
    LET c == cleanup_expired(data, now)
        gone == {k \in DOMAIN data : DeadlinePassed(data[k], now)}
    IN  /\ DOMAIN c.data = (DOMAIN data) \ gone
        /\ c.ret = Cardinality(gone)
        /\ \A k \in DOMAIN c.data : c.data[k] = data[k]
        /\ \A k \in Keys : SameResults(data, c.data, now, k)

\* the writes that change a container in place, and the type each works on
MutateOps ==
    {"lpush", "rpush", "lpop", "rpop", "sadd", "srem", "hset", "hdel", "zadd",
     "zrem"}
TypeOfMutate(op) ==
    IF op \in {"lpush", "rpush", "lpop", "rpop"} THEN "list"
    ELSE IF op \in {"sadd", "srem"} THEN "set"
    ELSE IF op \in {"hset", "hdel"} THEN "hash"
    ELSE "zset"
\* the last call changed, in place, an unexpired container of its own type
MutatedInPlace ==
    /\ last.op \in MutateOps
    /\ ~last.panic
    /\ PreLive
    /\ PreEntry.value.type = TypeOfMutate(last.op)

(* C35: a write that changes an existing unexpired list, set, hash or      *)
(* sorted set in place leaves the key's expiration deadline as it was: a   *)
(* key with a deadline keeps it, a key without one stays without.          *)
C35_MutationKeepsDeadline ==
    MutatedInPlace =>
        /\ last.key \in DOMAIN data
        /\ data[last.key].expires_at = PreEntry.expires_at

\* a container with a deadline was changed before the deadline
C35_Witness ==
    /\ MutatedInPlace
    /\ IsSome(PreEntry.expires_at)
    /\ data[last.key].value # PreEntry.value

\* the operations that only read
PureReads == ReadOps \ {"lpop", "rpop"}

\* in a step, last' is the call the step makes (or the earlier call, when
\* only time passes): a read of an unexpired key keeps every key, with its
\* value and its deadline, and only get and key_type change an entry at all
ReadKeepsEntries ==
    (last'.op \in PureReads /\ Live(data, now, last'.key)) =>
        /\ DOMAIN data' = DOMAIN data
        /\ \A k \in DOMAIN data :
            /\ data'[k].value = data[k].value
            /\ data'[k].expires_at = data[k].expires_at
            /\ (last'.op \notin {"get", "key_type"} \/ k # last'.key) =>
                   data'[k] = data[k]

(* C36: a read of an unexpired key changes no key's value and no key's     *)
(* expiration deadline; the only thing a read may change is the            *)
(* last-access time of the key read, and only get and key_type change it.  *)
C36_ReadsChangeNothing == [][ReadKeepsEntries]_vars

\* get has read a key that has a deadline and has updated its access time
C36_Witness ==
    /\ last.op \in {"get", "key_type"}
    /\ PreLive
    /\ IsSome(PreEntry.expires_at)
    /\ last.key \in DOMAIN data
    /\ data[last.key].last_accessed # PreEntry.last_accessed
    /\ data[last.key].expires_at = PreEntry.expires_at

\* the last call removed every element the container under its key held
RemovedLast ==
    /\ last.op \in {"lpop", "rpop", "srem", "hdel", "zrem"}
    /\ MutatedInPlace
    /\ LET v == PreEntry.value
       IN  CASE v.type = "list" ->
                    /\ v.elements # << >>
                    /\ IsSome(last.ret)
                    /\ Len(Unwrap(last.ret)) = Len(v.elements)
             [] v.type = "set" ->
                    v.members # {} /\ last.ret = Cardinality(v.members)
             [] v.type = "hash" ->
                    DOMAIN v.fields # {} /\ last.ret = Cardinality(DOMAIN v.fields)
             [] v.type = "zset" ->
                    /\ DOMAIN v.member_scores # {}
                    /\ last.ret = Cardinality(DOMAIN v.member_scores)

(* C37: removing the last element of a container by lpop, rpop, srem, hdel *)
(* or zrem does not delete the key: right after the call the key exists    *)
(* with the type it had, llen / scard / hlen / zcard report 0 for it, and  *)
(* a further lpop or rpop returns None.                                    *)
C37_EmptiedKeyStays ==
    RemovedLast =>
        LET ty == TypeOfMutate(last.op)
            k == last.key
        IN  /\ k \in DOMAIN data
            /\ exists(data, last.at, k).ret = TRUE
            /\ key_type(data, last.at, k).ret = Some(ty)
            /\ CASE ty = "list" ->
                        /\ llen(data, last.at, k).ret = Some(0)
                        /\ lpop(data, last.at, k, 1).ret = None
                        /\ rpop(data, last.at, k, 1).ret = None
                 [] ty = "set" -> scard(data, last.at, k).ret = Some(0)
                 [] ty = "hash" -> hlen(data, last.at, k).ret = 0
                 [] ty = "zset" -> zcard(data, last.at, k).ret = 0

\* a pop has taken the last element of a list
C37_Witness ==
    /\ RemovedLast
    /\ last.op \in {"lpop", "rpop"}
    /\ last.key \in DOMAIN data
    /\ data[last.key].value = ListValue_new

(* C38: expiration is monotonic: once the deadline of a key has passed,    *)
(* every operation that does not create the key again treats it as absent: *)
(* it answers what it answers for an absent key and the key is gone after  *)
(* it; expire and persist return false and do not revive the key.          *)
C38_ExpiredStaysAbsent ==
    (PreExpired /\ ~last.panic) =>
        CASE last.op \in ReadOps ->
                 last.ret = AbsentAnswer(last.op) /\ last.key \notin DOMAIN data
          [] last.op \in {"expire", "persist", "delete"} ->
                 last.ret = FALSE /\ last.key \notin DOMAIN data
          [] last.op \in {"srem", "hdel", "zrem"} ->
                 last.ret = 0 /\ last.key \notin DOMAIN data
          [] OTHER -> last.key \in DOMAIN data

\* the step in which connection c's task handles a well-formed SET frame
HandlesSet(c) ==
    /\ conns[c].pc = "frame"
    /\ conns'[c].pc = "send"
    /\ from_frame(conns[c].cur).ok
    /\ from_frame(conns[c].cur).val.name = "Set"

\* the key of the handled SET is stored with the deadline its EX option
\* gives (seconds from now), and with no deadline when it has no option
SetStoresDeadline(c) ==
    LET cmd == from_frame(conns[c].cur).val
        opt == cmd.args[2].expire
    IN  /\ cmd.key \in DOMAIN data'
        /\ data'[cmd.key].value = StringValue(cmd.args[1])
        /\ IF opt = None THEN data'[cmd.key].expires_at = None
           ELSE Unwrap(opt)[1] = "EX" =>
                    data'[cmd.key].expires_at = Some(now + Unwrap(opt)[2])

(* C39: a SET command with an expiration option stores the key with that   *)
(* deadline (so that GET and EXISTS treat it as absent once the time has   *)
(* passed); a SET without an expiration option stores it with no deadline. *)
C39_SetExStoresDeadline ==
    [][\A c \in Conns : HandlesSet(c) => SetStoresDeadline(c)]_vars

\* the members, in reply order, of the window the last ZRANGE asked for
WindowMembers ==
    LET a == last.args
        w == zrange([k \in {last.key} |-> PreEntry], last.at, last.key,
                    a[1], a[2], TRUE, a[4]).ret
    IN  [i \in 1 .. Len(Unwrap(w)) |-> Unwrap(w)[i][1]]

(* C40: the reply to ZRANGE without WITHSCORES has exactly one item per    *)
(* member of the window, the members alone; the reply to ZRANGE with       *)
(* WITHSCORES has a member and a score per member of the window, the score *)
(* being the one stored for that member.                                   *)
C40_ZRangeReply ==
    (/\ last.op = "handle_zrange" /\ ~last.panic
     /\ PreLive /\ PreEntry.value.type = "zset") =>
        LET reply == last.ret.val.val
            ms == WindowMembers
            with_scores == last.args[3]
        IN  /\ last.ret.ok
            /\ last.ret.val.kind = "array"
            /\ IF with_scores
               THEN /\ Len(reply) = 2 * Len(ms)
                    /\ \A i \in 1 .. Len(ms) :
                        /\ reply[2 * i - 1] = BulkString(ms[i])
                        /\ reply[2 * i] =
                               BulkString(f64_to_string(
                                   PreEntry.value.member_scores[ms[i]]))
               ELSE reply = [i \in 1 .. Len(ms) |-> BulkString(ms[i])]

====
